---- MODULE Spec2Model ----
(***************************************************************************)
(* Rate limiter of low-level-design/Rate Limiter/rate-limiter.py:          *)
(* TokenBucketRateLimiter, SlidingWindowRateLimiter and RateLimiterFactory. *)
(* Threads call is_allowed(user_id) on one limiter built by the factory;   *)
(* every call runs under the limiter's single threading.Lock and reads     *)
(* time.time(), modelled as the integer variable clock.                    *)
(***************************************************************************)
EXTENDS Integers, Sequences, FiniteSets, TLC

(* ------------------------------ bounds -------------------------------- *)
\* threads that call is_allowed
NumThreads == 2
\* largest clock value of the general specification
MaxTime == 2
\* is_allowed calls started in one behaviour of the general specification
MaxCalls == 3
\* constructor arguments of the general specification range over 0..MaxParam
MaxParam == 2
\* is_allowed calls started in one behaviour of the scenario specification
ScenarioCalls == 7

\* is_allowed calls started in one behaviour of the sequential specification
SequentialCalls == 7
\* largest clock value of the sequential specification
SequentialTime == 6

\* is_allowed calls started in one behaviour of the backward-clock specification
BackwardCalls == 3
\* largest clock value of the backward-clock specification
BackwardTime == 2
\* is_allowed calls started in one behaviour of the statement-level specification
FineCalls == 3
\* largest clock value of the statement-level specification
FineTime == 2
\* is_allowed calls started in one behaviour of the fair specification
FairCalls == 3
\* largest clock value of the fair specification
FairTime == 1
\* is_allowed calls made in one behaviour of the two-limiter specification
TwoCalls == 3
\* largest clock value of the two-limiter specification
TwoTime == 1
\* lockers of the locker system (num_lockers)
NumLockers == 2
\* packages created in one behaviour of the locker specification
MaxPackages == 3

Threads == 1..NumThreads
\* user ids; the empty string is a key like any other
Keys == {"", "B"}
\* self.lock is free
NoThread == 0
\* no clock value: line 23 was not run by the call
NoTime == 0 - 1

VARIABLES
    req,        \* arguments of RateLimiterFactory.create, or "none" before it
    created,    \* "none", "ok" (a limiter was returned) or "ValueError"
    limiter,    \* the configuration fields of the limiter instance
    buckets,    \* TokenBucketRateLimiter.buckets: user_id -> tokens, last_refill
    requests,   \* SlidingWindowRateLimiter.requests: user_id -> timestamps
    lock,       \* holder of self.lock, NoThread when free
    pc,         \* position of each thread in is_allowed
    user_id,    \* argument of each thread's call in progress ("" when idle)
    initAt,     \* time.time() read at line 23 by the call in progress, or NoTime
    clock,      \* value time.time() returns
    log,        \* per key, the finished calls in lock order: the clock values read,
                \* the result, and whether a thread was blocked on the lock
    local,      \* per thread, the local variables now and tokens_to_add of the
                \* call in progress and the place of the call in the log
    insts,      \* the limiter objects made by further calls of create: for each
                \* its arguments, its fields, and the dict its store refers to
    heap,       \* the dict objects of those limiters, by reference
    ilog,       \* per limiter object and key, the finished calls
    id_counter, \* Package._id_counter (amazon-locker.py)
    lockers,    \* LockerSystem.lockers: for each Locker its package and the
                \* holder of its lock
    agent,      \* per thread of the locker program: the method it is in (op),
                \* its position (pc), its arguments and locals, its last result
    spots,  \* ParkingLot.floors: the spots in the order added, each with its floor, type and vehicle
    active_tickets,  \* ParkingLot.active_tickets: ticket number -> ticket
    ticket_counter,  \* ParkingLot.ticket_counter
    lot_time,  \* value datetime.now() returns, in half hours
    lot_result, \* what the last call on the parking lot handed back
    items,  \* the inventory's items: item id to quantity
    request_queue,  \* item id to the queue of waiting purchases (thread numbers)
    item_lock,  \* holder of the item's lock, NoThread when free
    worker,  \* each request thread: position, request, the request in hand, remove_stock's answer
    fulfilled, \* the purchases reported fulfilled
    jobs,  \* JobScheduler.jobs: job id to the ScheduledJob's run_at, interval, status and cancel event
    executor,  \* each job's JobExecutor thread: position, calls of job.run() made, end of its sleep
    job_time,  \* datetime.now(), in seconds
    canceller,  \* the thread that calls cancel: position and job id
    cancel_returned, \* the job ids for which cancel has returned True
    seat_booked,  \* BookingSystem._seats: seat number to the seat's _booked
    bookings,  \* BookingSystem._bookings
    booking_counter,  \* Booking._booking_counter
    book_result, \* what the last book_seats call returned: None or a Booking
    show_seats,  \* the CinemaScreen's seats: seat number to the seat's _booked
    show_lock,  \* holder of Showtime._lock, NoThread when free
    show_bookings,  \* the Booking objects, in order of creation: seats and status
    booker  \* each calling thread: position, arguments and loop state

\* the variables of the rate limiter and of the locker program
limiterVars == <<req, created, limiter, buckets, requests, lock, pc, user_id, initAt, clock,
                 log, local, insts, heap, ilog>>

lockerVars == <<id_counter, lockers, agent>>

parkingVars == <<spots, active_tickets, ticket_counter, lot_time, lot_result>>

inventoryVars == <<items, request_queue, item_lock, worker, fulfilled>>

jobVars == <<jobs, executor, job_time, canceller, cancel_returned>>

bookingVars == <<seat_booked, bookings, booking_counter, book_result>>

bmsVars == <<show_seats, show_lock, show_bookings, booker>>

vars == <<limiterVars, lockerVars, parkingVars, inventoryVars, jobVars, bookingVars, bmsVars>>

(* --------------------------- pure helpers ------------------------------ *)
Min(a, b) == IF a <= b THEN a ELSE b

\* f with key k bound to v (dict item assignment)
Put(f, k, v) == [x \in DOMAIN f \cup {k} |-> IF x = k THEN v ELSE f[x]]

EmptyMap == [x \in {} |-> 0]

NoLimiter == [kind |-> "none", capacity |-> 0, refill_interval |-> 0,
              max_requests |-> 0, window |-> 0]

NoReq == [limiter_type |-> "none", n |-> 0, d |-> 0]

(* --------------------------- constructors ------------------------------ *)
\* TokenBucketRateLimiter.__init__: the arguments are stored as given
TokenBucketRateLimiter(capacity, refill_interval) ==
    [kind |-> "token_bucket", capacity |-> capacity,
     refill_interval |-> refill_interval, max_requests |-> 0, window |-> 0]

\* SlidingWindowRateLimiter.__init__: the arguments are stored as given
SlidingWindowRateLimiter(max_requests, window) ==
    [kind |-> "sliding_window", capacity |-> 0, refill_interval |-> 0,
     max_requests |-> max_requests, window |-> window]

\* RateLimiterFactory.create with a fallback to the token bucket (mutant)
create_fallback(limiter_type, n, d) ==
    IF limiter_type = "sliding_window"
    THEN [status |-> "ok", limiter |-> SlidingWindowRateLimiter(n, d)]
    ELSE [status |-> "ok", limiter |-> TokenBucketRateLimiter(n, d)]

\* RateLimiterFactory.create: dispatch on the name, ValueError otherwise
create(limiter_type, n, d) ==
    IF limiter_type = "token_bucket"
    THEN [status |-> "ok", limiter |-> TokenBucketRateLimiter(n, d)]
    ELSE IF limiter_type = "sliding_window"
    THEN [status |-> "ok", limiter |-> SlidingWindowRateLimiter(n, d)]
    ELSE [status |-> "ValueError", limiter |-> NoLimiter]

(* ---------------------------- token bucket ----------------------------- *)
\* line 29 rounding up instead of down (mutant)
TokensToAdd_ceil(elapsed, refill_interval) ==
    (elapsed + refill_interval - 1) \div refill_interval

\* line 29 crediting a token only after more than a whole interval (mutant)
TokensToAdd_strict(elapsed, refill_interval) == (elapsed - 1) \div refill_interval

\* line 29 on the size of the elapsed time, whatever its sign (mutant)
TokensToAdd_abs(elapsed, refill_interval) ==
    (IF elapsed < 0 THEN 0 - elapsed ELSE elapsed) \div refill_interval

\* line 29: int(elapsed // self.refill_interval), refill_interval # 0
TokensToAdd(elapsed, refill_interval) == elapsed \div refill_interval

\* lines 20-24 without the membership test of line 20 (mutant)
TBInit_reset(bkts, k, capacity, t) ==
    Put(bkts, k, [tokens |-> capacity, last_refill |-> t])

\* lines 20-24 replacing the whole dict by the new bucket (mutant)
TBInit_clobber(bkts, k, capacity, t) ==
    IF k \in DOMAIN bkts THEN bkts
    ELSE Put(EmptyMap, k, [tokens |-> capacity, last_refill |-> t])

\* lines 20-24 creating the bucket empty (mutant)
TBInit_zero(bkts, k, capacity, t) ==
    IF k \in DOMAIN bkts THEN bkts
    ELSE Put(bkts, k, [tokens |-> 0, last_refill |-> t])

\* lines 20-24: create the bucket of a key seen for the first time
TBInit(bkts, k, capacity, t) ==
    IF k \in DOMAIN bkts THEN bkts
    ELSE Put(bkts, k, [tokens |-> capacity, last_refill |-> t])

\* lines 30-33 without the min (mutant)
TBRefill_nocap(bkts, k, now, capacity, refill_interval) ==
    LET b == bkts[k]
        add == TokensToAdd(now - b.last_refill, refill_interval)
    IN  IF add > 0
        THEN Put(bkts, k, [tokens |-> b.tokens + add, last_refill |-> now])
        ELSE bkts

\* lines 30-33 with line 33 outside the if (mutant)
TBRefill_always(bkts, k, now, capacity, refill_interval) ==
    LET b == bkts[k]
        add == TokensToAdd(now - b.last_refill, refill_interval)
    IN  Put(bkts, k, [tokens |-> IF add > 0 THEN Min(capacity, b.tokens + add) ELSE b.tokens,
                      last_refill |-> now])

\* lines 26-33: credit whole intervals, last_refill := now when any was credited
TBRefill(bkts, k, now, capacity, refill_interval) ==
    LET b == bkts[k]
        add == TokensToAdd(now - b.last_refill, refill_interval)
    IN  IF add > 0
        THEN Put(bkts, k, [tokens |-> Min(capacity, b.tokens + add), last_refill |-> now])
        ELSE bkts

\* lines 35-38 admitting without charging the token (mutant)
TBCharge_free(bkts, k) ==
    IF bkts[k].tokens > 0
    THEN [buckets |-> bkts, result |-> "True"]
    ELSE [buckets |-> bkts, result |-> "False"]

\* lines 35-38 without the test of line 35 (mutant)
TBCharge_unchecked(bkts, k) ==
    [buckets |-> Put(bkts, k, [bkts[k] EXCEPT !.tokens = @ - 1]), result |-> "True"]

\* lines 35-38 with >= for > in line 35 (mutant)
TBCharge_ge0(bkts, k) ==
    IF bkts[k].tokens >= 0
    THEN [buckets |-> Put(bkts, k, [bkts[k] EXCEPT !.tokens = @ - 1]), result |-> "True"]
    ELSE [buckets |-> bkts, result |-> "False"]

\* lines 35-38: admit and charge one token, or deny
TBCharge(bkts, k) ==
    IF bkts[k].tokens > 0
    THEN [buckets |-> Put(bkts, k, [bkts[k] EXCEPT !.tokens = @ - 1]), result |-> "True"]
    ELSE [buckets |-> bkts, result |-> "False"]

\* lines 26-38: elapsed // 0 raises ZeroDivisionError before any update
TBDecide(bkts, k, now, lim) ==
    IF lim.refill_interval = 0
    THEN [buckets |-> bkts, result |-> "ZeroDivisionError"]
    ELSE TBCharge(TBRefill(bkts, k, now, lim.capacity, lim.refill_interval), k)

(* --------------------------- sliding window ---------------------------- *)
\* line 55 with <= for < (mutant)
Prune_le(ts, now, window) == SelectSeq(ts, LAMBDA x : now - x <= window)

\* line 55: keep the timestamps younger than the window
Prune(ts, now, window) == SelectSeq(ts, LAMBDA x : now - x < window)

\* line 57 with <= for < (mutant)
SWAdmit_le(count, max_requests) == count <= max_requests

\* line 57: room left in the window
SWAdmit(count, max_requests) == count < max_requests

\* lines 57-60 appending the time of a denied call as well (mutant)
SWDecide_logall(reqs, k, now, lim) ==
    LET cur == IF k \in DOMAIN reqs THEN reqs[k] ELSE <<>>
        kept == Prune(cur, now, lim.window)
    IN  [requests |-> Put(reqs, k, Append(kept, now)),
         result |-> IF SWAdmit(Len(kept), lim.max_requests) THEN "True" ELSE "False"]

\* lines 50-60 on the dict self.requests
SWDecide(reqs, k, now, lim) ==
    LET cur == IF k \in DOMAIN reqs THEN reqs[k] ELSE <<>>
        kept == Prune(cur, now, lim.window)
    IN  IF SWAdmit(Len(kept), lim.max_requests)
        THEN [requests |-> Put(reqs, k, Append(kept, now)), result |-> "True"]
        ELSE [requests |-> Put(reqs, k, kept), result |-> "False"]

(* ------------------------------ actions -------------------------------- *)
RECURSIVE SumLen(_, _)
SumLen(f, S) ==
    IF S = {} THEN 0
    ELSE LET k == CHOOSE x \in S : TRUE IN Len(f[k]) + SumLen(f, S \ {k})

\* is_allowed calls started so far, finished or in progress
CallsStarted == SumLen(log, Keys) + Cardinality({t \in Threads : pc[t] # "idle"})

\* the local variables of a thread that is not inside is_allowed
NoLocal == [now |-> NoTime, tokens_to_add |-> 0, slot |-> 0]

\* lines 19 and 49: the with statement passes only when self.lock is not held
LockFree_open(l) == TRUE

LockFree(l) == l = NoThread

\* the lock is released only on the admitting path (mutant)
WithExit_leak(t, r) == IF r = "True" THEN NoThread ELSE t

\* lines 19 and 49: the lock after thread t left the with block with result r,
\* by a return or by an exception
WithExit(t, r) == NoThread

(* amazon-locker.py: values *)
\* threads that call the locker system and its lockers
LockerThreads == {1, 2}

Recipients == {"Alice", "Bob"}

\* Locker.package is None
NoPackage == [package_id |-> 0, recipient_name |-> "none"]

\* what a finished method handed back: kind is "delivered" (package,
\* locker_id), "stored" (put_package returned), "package", "None" or "Exception"
NoResult == [kind |-> "none", package_id |-> 0, locker_id |-> 0]

\* a thread that is in no method of the locker program
NoAgent == [op |-> "none", pc |-> "idle", recipient |-> "none", package |-> NoPackage,
            at |-> 0, result |-> NoResult]

(* parking-lot.py: values *)
\* parking spots added in one behaviour of the parking specification
MaxSpots == 2
\* largest value of datetime.now(), counted in half hours
MaxLotTime == 2
\* ticket ids a caller may pass to exit_vehicle
MaxTicketId == 3

\* floors of the parking lot (floors_count)
Floors == {1, 2}

SpotTypes == {"compact", "large", "handicapped"}

VehicleTypes == {"Car", "Bike", "Truck"}

\* seconds in one unit of lot_time
SecondsPerTick == 1800

\* the last call, its ticket_id argument if it has one, and what it handed
\* back: status is "none", "ticket", "None", "price", "ValueError" or "Exception"
NoOutcome == [op |-> "none", arg |-> 0, status |-> "none", value |-> 0]

\* can_fit_vehicle of CompactSpot, LargeSpot and HandicappedSpot
can_fit_vehicle(spot_type, vehicle) ==
    IF spot_type = "large" THEN vehicle \in {"Car", "Bike", "Truck"}
    ELSE vehicle \in {"Car", "Bike"}

\* DefaultPricingStrategy.rates
rates(vehicle) ==
    IF vehicle = "Car" THEN 10 ELSE IF vehicle = "Bike" THEN 5 ELSE 15

\* DefaultPricingStrategy.calculate_price: raises while the ticket has no
\* exit_time, else started hours times the rate of the vehicle
calculate_price(ticket) ==
    IF ticket.exit_time = NoTime
    THEN [status |-> "Exception", price |-> 0]
    ELSE LET seconds == (ticket.exit_time - ticket.entry_time) * SecondsPerTick
             hours == seconds \div 3600 + (IF seconds % 3600 > 0 THEN 1 ELSE 0)
         IN  [status |-> "ok", price |-> hours * rates(ticket.vehicle)]

\* ParkingLot.get_available_spots_count
get_available_spots_count(ss) ==
    Cardinality({i \in DOMAIN ss : ss[i].vehicle = "none"})

\* the spot park_vehicle takes for a vehicle: the floors in order, on each
\* floor the spots in the order they were added; 0 when there is none
find_available_spot(ss, vehicle) ==
    LET ok == {i \in DOMAIN ss :
                 ss[i].vehicle = "none" /\ can_fit_vehicle(ss[i].spot_type, vehicle)}
    IN  IF ok = {} THEN 0
        ELSE CHOOSE i \in ok :
                \A j \in ok : ss[i].floor < ss[j].floor
                                \/ (ss[i].floor = ss[j].floor /\ i <= j)

(* inventory_management_system_with_queuing_for_incoming_requests.py: values *)
\* largest qty of a request and largest quantity of the Item handed to add_item
MaxQty == 2

\* the request threads started by InventoryManager.handle_request
InvThreads == {1, 2, 3}

\* the item id every request names
TheItem == 1

\* a thread that handle_request has not started yet; out is "none",
\* "returned" or "AttributeError"
IdleWorker == [pc |-> "idle", kind |-> "none", qty |-> 0, cur |-> 0,
               ok |-> FALSE, out |-> "none"]

\* line 14 and line 19: `with self.lock` enters when the lock is free
ItemLockFree_open(l) == TRUE

ItemLockFree(l) == l = NoThread

\* line 20: self.quantity >= qty
StockEnough(quantity, qty) == quantity >= qty

\* the request a thread is working on has the thread's own number when it is
\* the thread's own purchase; a restock thread works on queued purchases
QtyOf(r) == worker[r].qty

(* job-scheduler.py: values *)
\* largest value of datetime.now(), in seconds, and largest run_at handed to
\* schedule
MaxJobTime == 3
\* largest interval, in seconds, handed to schedule
MaxInterval == 2

\* the ids of the jobs that can be scheduled (uuid4 strings in the source);
\* jobs share nothing but the clock and the scheduler's dictionary
JobIds == {1}

\* interval is None
NoInterval == 0 - 1

JobStatus == {"SCHEDULED", "RUNNING", "COMPLETED", "CANCELLED", "FAILED"}

\* the thread that calls JobScheduler.cancel, outside a call
IdleCanceller == [pc |-> "idle", job |-> 0]

\* line 22: a fresh id
NewJobId == CHOOSE j \in JobIds \ DOMAIN jobs : \A k \in JobIds \ DOMAIN jobs : j <= k

\* line 42: the loop goes on while the cancel event is not set
LoopGoesOn(job) == ~job.cancel_event

\* line 44: now >= job.run_at
Due_early(now, run_at) == TRUE

Due(now, run_at) == now >= run_at

\* line 56: job.run_at += timedelta(seconds=job.interval)
NextRunAt(run_at, interval) == run_at + interval

(* booking_system.py: values *)
\* seats of the BookingSystem (range(1, 101) in the source)
NumSeats == 3
\* seat numbers in one book_seats call
MaxRequest == 2
\* Booking objects made in one behaviour
MaxBookings == 2

\* the seat_numbers lists a caller passes: seat NumSeats + 1 does not exist
SeatRequests ==
    UNION {[1..n -> 1..(NumSeats + 1)] : n \in 0..MaxRequest}

\* lines 26-32: Seat.book() on a seat whose _booked is b gives the answer and
\* the new _booked
SeatBook(b) == [ok |-> ~b, booked |-> TRUE]

\* lines 81-92: the loop over seat_numbers from position i on, starting with
\* the flags bk and the seats taken so far; it stops at the first seat that
\* is missing or does not book
RECURSIVE BookLoop(_, _, _, _)
BookLoop(bk, seat_numbers, i, seats_to_book) ==
    IF i > Len(seat_numbers)
    THEN [ok |-> TRUE, booked |-> bk, seats_to_book |-> seats_to_book]
    ELSE LET seat_number == seat_numbers[i] IN
         IF seat_number \notin DOMAIN bk
         THEN [ok |-> FALSE, booked |-> bk, seats_to_book |-> seats_to_book]
         ELSE LET r == SeatBook(bk[seat_number]) IN
              IF ~r.ok
              THEN [ok |-> FALSE, booked |-> [bk EXCEPT ![seat_number] = r.booked],
                    seats_to_book |-> seats_to_book]
              ELSE BookLoop([bk EXCEPT ![seat_number] = r.booked], seat_numbers, i + 1,
                            Append(seats_to_book, seat_number))

(* bms_ticket_system.py: values *)
\* seats of the CinemaScreen (seat_count, 100 by default)
ScreenSeats == 2
\* seat numbers in one book call
MaxShowRequest == 2
\* Booking objects made in one behaviour
MaxShowBookings == 3

\* the threads that call BookingSystem.book and Booking.cancel
BmsThreads == {1, 2}

\* the seat_numbers lists a caller passes: seat ScreenSeats + 1 does not exist
ShowRequests ==
    UNION {[1..n -> 1..(ScreenSeats + 1)] : n \in 1..MaxShowRequest}

\* a thread outside a call
IdleBooker == [pc |-> "idle", seat_numbers |-> <<>>, i |-> 0, seats_to_book |-> <<>>,
               booking |-> 0]

\* the seats of a list, as a set
SeatSet(seats) == {seats[i] : i \in DOMAIN seats}

\* some thread is stopped at the with statement because the lock is held
Blocked == lock # NoThread /\ \E t \in Threads : pc[t] = "acquire"

Init ==
    /\ req = NoReq
    /\ created = "none"
    /\ limiter = NoLimiter
    /\ buckets = EmptyMap
    /\ requests = EmptyMap
    /\ lock = NoThread
    /\ pc = [t \in Threads |-> "idle"]
    /\ user_id = [t \in Threads |-> ""]
    /\ initAt = [t \in Threads |-> NoTime]
    /\ clock = 0
    /\ log = [k \in Keys |-> <<>>]
    /\ local = [t \in Threads |-> NoLocal]
    /\ insts = <<>>
    /\ heap = EmptyMap
    /\ ilog = <<>>
    /\ id_counter = 0
    /\ lockers = [i \in 1..NumLockers |-> [package |-> NoPackage, lock |-> NoThread]]
    /\ agent = [t \in LockerThreads |-> NoAgent]
    /\ spots = <<>>
    /\ active_tickets = EmptyMap
    /\ ticket_counter = 0
    /\ lot_time = 0
    /\ lot_result = NoOutcome
    /\ items = EmptyMap
    /\ request_queue = EmptyMap
    /\ item_lock = NoThread
    /\ worker = [t \in InvThreads |-> IdleWorker]
    /\ fulfilled = {}
    /\ jobs = EmptyMap
    /\ executor = EmptyMap
    /\ job_time = 0
    /\ canceller = IdleCanceller
    /\ cancel_returned = {}
    /\ seat_booked = [i \in 1..NumSeats |-> FALSE]
    /\ bookings = <<>>
    /\ booking_counter = 0
    /\ book_result = [status |-> "none", booking_id |-> 0]
    /\ show_seats = [i \in 1..ScreenSeats |-> FALSE]
    /\ show_lock = NoThread
    /\ show_bookings = <<>>
    /\ booker = [t \in BmsThreads |-> IdleBooker]

\* RateLimiterFactory.create(limiter_type, **kwargs), called once at startup
Create(cfgs) ==
    /\ created = "none"
    /\ \E c \in cfgs :
        LET r == create(c.limiter_type, c.n, c.d) IN
        /\ req' = c
        /\ created' = r.status
        /\ limiter' = r.limiter
    /\ UNCHANGED <<buckets, requests, lock, pc, user_id, initAt, clock, log, local, insts, heap, ilog, lockerVars, parkingVars, inventoryVars, jobVars, bookingVars, bmsVars>>

\* a thread enters is_allowed(k) and reaches the with statement
Call(t, k, maxCalls) ==
    /\ created = "ok"
    /\ pc[t] = "idle"
    /\ CallsStarted < maxCalls
    /\ pc' = [pc EXCEPT ![t] = "acquire"]
    /\ user_id' = [user_id EXCEPT ![t] = k]
    /\ UNCHANGED <<req, created, limiter, buckets, requests, lock, initAt, clock, log, local, insts, heap, ilog, lockerVars, parkingVars, inventoryVars, jobVars, bookingVars, bmsVars>>

\* lines 19 and 49: with self.lock, the one lock of the instance
Acquire(t) ==
    /\ pc[t] = "acquire"
    /\ LockFree(lock)
    /\ lock' = t
    /\ pc' = [pc EXCEPT ![t] =
                IF limiter.kind = "token_bucket" THEN "tb_init" ELSE "sw_decide"]
    /\ UNCHANGED <<req, created, limiter, buckets, requests, user_id, initAt, clock, log, local, insts, heap, ilog, lockerVars, parkingVars, inventoryVars, jobVars, bookingVars, bmsVars>>

\* lines 20-24 of TokenBucketRateLimiter.is_allowed
TBInitStep(t) ==
    /\ pc[t] = "tb_init"
    /\ buckets' = TBInit(buckets, user_id[t], limiter.capacity, clock)
    /\ initAt' = [initAt EXCEPT ![t] =
                    IF user_id[t] \in DOMAIN buckets THEN NoTime ELSE clock]
    /\ pc' = [pc EXCEPT ![t] = "tb_decide"]
    /\ UNCHANGED <<req, created, limiter, requests, lock, user_id, clock, log, local, insts, heap, ilog, lockerVars, parkingVars, inventoryVars, jobVars, bookingVars, bmsVars>>

\* lines 26-38 charging self.capacity along with the bucket (mutant)
TBDecideStep_drain(t) ==
    /\ pc[t] = "tb_decide"
    /\ LET r == TBDecide(buckets, user_id[t], clock, limiter) IN
        /\ buckets' = r.buckets
        /\ limiter' = [limiter EXCEPT !.capacity =
                        IF r.result = "True" THEN @ - 1 ELSE @]
        /\ log' = [log EXCEPT ![user_id[t]] =
                     Append(@, [created |-> initAt[t], now |-> clock,
                                result |-> r.result, waiting |-> Blocked])]
        /\ lock' = WithExit(t, r.result)
    /\ pc' = [pc EXCEPT ![t] = "idle"]
    /\ initAt' = [initAt EXCEPT ![t] = NoTime]
    /\ user_id' = [user_id EXCEPT ![t] = ""]
    /\ UNCHANGED <<req, created, requests, clock, local, insts, heap, ilog, lockerVars, parkingVars, inventoryVars, jobVars, bookingVars, bmsVars>>

\* lines 26-38 of TokenBucketRateLimiter.is_allowed, leaving the with block
TBDecideStep(t) ==
    /\ pc[t] = "tb_decide"
    /\ LET r == TBDecide(buckets, user_id[t], clock, limiter) IN
        /\ buckets' = r.buckets
        /\ log' = [log EXCEPT ![user_id[t]] =
                     Append(@, [created |-> initAt[t], now |-> clock,
                                result |-> r.result, waiting |-> Blocked])]
        /\ lock' = WithExit(t, r.result)
    /\ pc' = [pc EXCEPT ![t] = "idle"]
    /\ initAt' = [initAt EXCEPT ![t] = NoTime]
    /\ user_id' = [user_id EXCEPT ![t] = ""]
    /\ UNCHANGED <<req, created, limiter, requests, clock, local, insts, heap, ilog, lockerVars, parkingVars, inventoryVars, jobVars, bookingVars, bmsVars>>

\* lines 50-60 of SlidingWindowRateLimiter.is_allowed, leaving the with block
SWDecideStep(t) ==
    /\ pc[t] = "sw_decide"
    /\ LET r == SWDecide(requests, user_id[t], clock, limiter) IN
        /\ requests' = r.requests
        /\ log' = [log EXCEPT ![user_id[t]] =
                     Append(@, [created |-> NoTime, now |-> clock,
                                result |-> r.result, waiting |-> Blocked])]
        /\ lock' = WithExit(t, r.result)
    /\ pc' = [pc EXCEPT ![t] = "idle"]
    /\ user_id' = [user_id EXCEPT ![t] = ""]
    /\ UNCHANGED <<req, created, limiter, buckets, initAt, clock, local, insts, heap, ilog, lockerVars, parkingVars, inventoryVars, jobVars, bookingVars, bmsVars>>

\* time passing with a background sweep that drops expired timestamps (mutant)
AdvanceClock_sweep(times) ==
    /\ \E t \in times :
        /\ t > clock
        /\ clock' = t
        /\ requests' = [k \in DOMAIN requests |-> Prune(requests[k], t, limiter.window)]
    /\ UNCHANGED <<req, created, limiter, buckets, lock, pc, user_id, initAt, log, local,
                   insts, heap, ilog, lockerVars, parkingVars, inventoryVars, jobVars, bookingVars, bmsVars>>

\* time.time() moves forward to a later value
AdvanceClock(times) ==
    /\ \E t \in times : t > clock /\ clock' = t
    /\ UNCHANGED <<req, created, limiter, buckets, requests, lock, pc, user_id, initAt, log, local, insts, heap, ilog, lockerVars, parkingVars, inventoryVars, jobVars, bookingVars, bmsVars>>

\* time.time() is the wall clock: it may also be set back
SetClock(times) ==
    /\ \E t \in times : t # clock /\ clock' = t
    /\ UNCHANGED <<req, created, limiter, buckets, requests, lock, pc, user_id, initAt, log, local, insts, heap, ilog, lockerVars, parkingVars, inventoryVars, jobVars, bookingVars, bmsVars>>

(* ------------------- is_allowed, statement by statement ---------------- *)
\* The actions above run the body of the with block in one or two steps. The
\* actions below run it one statement at a time, so that it is the lock, and
\* nothing else, that keeps two calls from interleaving.

\* calls started so far when the log entry is made on taking the lock
FineCallsStarted == SumLen(log, Keys) + Cardinality({t \in Threads : pc[t] = "acquire"})

\* no thread is between the first and the last statement of the with block
FineQuiet == \A t \in Threads : pc[t] \in {"idle", "acquire"}

\* a thread enters is_allowed(k) and reaches the with statement
FineCall(t, k, maxCalls) ==
    /\ created = "ok"
    /\ pc[t] = "idle"
    /\ FineCallsStarted < maxCalls
    /\ pc' = [pc EXCEPT ![t] = "acquire"]
    /\ user_id' = [user_id EXCEPT ![t] = k]
    /\ UNCHANGED <<req, created, limiter, buckets, requests, lock, initAt, clock, log, local, insts, heap, ilog, lockerVars, parkingVars, inventoryVars, jobVars, bookingVars, bmsVars>>

\* lines 19 and 49: the thread takes self.lock; the call gets its place in the
\* order of lock acquisitions
FineAcquire(t) ==
    /\ pc[t] = "acquire"
    /\ LockFree(lock)
    /\ lock' = t
    /\ log' = [log EXCEPT ![user_id[t]] =
                 Append(@, [created |-> NoTime, now |-> NoTime,
                            result |-> "pending", waiting |-> FALSE])]
    /\ local' = [local EXCEPT ![t] = [NoLocal EXCEPT !.slot = Len(log[user_id[t]]) + 1]]
    /\ pc' = [pc EXCEPT ![t] =
                IF limiter.kind = "token_bucket" THEN "L20" ELSE "L50"]
    /\ UNCHANGED <<req, created, limiter, buckets, requests, user_id, initAt, clock, insts, heap, ilog, lockerVars, parkingVars, inventoryVars, jobVars, bookingVars, bmsVars>>

\* the call of thread t leaves the with block with result r: the lock is
\* released and the call's entry in the log is completed
FineReturn(t, r) ==
    /\ log' = [log EXCEPT ![user_id[t]][local[t].slot] =
                 [created |-> initAt[t], now |-> local[t].now,
                  result |-> r, waiting |-> \E u \in Threads : pc[u] = "acquire"]]
    /\ lock' = WithExit(t, r)
    /\ pc' = [pc EXCEPT ![t] = "idle"]
    /\ initAt' = [initAt EXCEPT ![t] = NoTime]
    /\ user_id' = [user_id EXCEPT ![t] = ""]
    /\ local' = [local EXCEPT ![t] = NoLocal]

\* line 20: if user_id not in self.buckets
TB_L20(t) ==
    /\ pc[t] = "L20"
    /\ pc' = [pc EXCEPT ![t] = IF user_id[t] \in DOMAIN buckets THEN "L27" ELSE "L21"]
    /\ UNCHANGED <<req, created, limiter, buckets, requests, lock, user_id, initAt, clock, log, local, insts, heap, ilog, lockerVars, parkingVars, inventoryVars, jobVars, bookingVars, bmsVars>>

\* lines 21-24: self.buckets[user_id] = {tokens: capacity, last_refill: time.time()}
TB_L21(t) ==
    /\ pc[t] = "L21"
    /\ buckets' = Put(buckets, user_id[t],
                      [tokens |-> limiter.capacity, last_refill |-> clock])
    /\ initAt' = [initAt EXCEPT ![t] = clock]
    /\ pc' = [pc EXCEPT ![t] = "L27"]
    /\ UNCHANGED <<req, created, limiter, requests, lock, user_id, clock, log, local, insts, heap, ilog, lockerVars, parkingVars, inventoryVars, jobVars, bookingVars, bmsVars>>

\* lines 26-27: bucket = self.buckets[user_id]; now = time.time()
TB_L27(t) ==
    /\ pc[t] = "L27"
    /\ local' = [local EXCEPT ![t].now = clock]
    /\ pc' = [pc EXCEPT ![t] = "L28"]
    /\ UNCHANGED <<req, created, limiter, buckets, requests, lock, user_id, initAt, clock, log, insts, heap, ilog, lockerVars, parkingVars, inventoryVars, jobVars, bookingVars, bmsVars>>

\* lines 28-30: elapsed, tokens_to_add (raising when refill_interval is 0) and
\* the test tokens_to_add > 0
TB_L28(t) ==
    /\ pc[t] = "L28"
    /\ IF limiter.refill_interval = 0
       THEN /\ FineReturn(t, "ZeroDivisionError")
            /\ UNCHANGED <<req, created, limiter, buckets, requests, clock, insts, heap, ilog, lockerVars, parkingVars, inventoryVars, jobVars, bookingVars, bmsVars>>
       ELSE LET add == TokensToAdd(local[t].now - buckets[user_id[t]].last_refill,
                                   limiter.refill_interval) IN
            /\ local' = [local EXCEPT ![t].tokens_to_add = add]
            /\ pc' = [pc EXCEPT ![t] = IF add > 0 THEN "L31" ELSE "L35"]
            /\ UNCHANGED <<req, created, limiter, buckets, requests, lock, user_id,
                           initAt, clock, log, insts, heap, ilog, lockerVars, parkingVars, inventoryVars, jobVars, bookingVars, bmsVars>>

\* lines 31-32: bucket["tokens"] = min(capacity, bucket["tokens"] + tokens_to_add)
TB_L31(t) ==
    /\ pc[t] = "L31"
    /\ buckets' = [buckets EXCEPT ![user_id[t]].tokens =
                     Min(limiter.capacity, @ + local[t].tokens_to_add)]
    /\ pc' = [pc EXCEPT ![t] = "L33"]
    /\ UNCHANGED <<req, created, limiter, requests, lock, user_id, initAt, clock, log, local, insts, heap, ilog, lockerVars, parkingVars, inventoryVars, jobVars, bookingVars, bmsVars>>

\* line 33: bucket["last_refill"] = now
TB_L33(t) ==
    /\ pc[t] = "L33"
    /\ buckets' = [buckets EXCEPT ![user_id[t]].last_refill = local[t].now]
    /\ pc' = [pc EXCEPT ![t] = "L35"]
    /\ UNCHANGED <<req, created, limiter, requests, lock, user_id, initAt, clock, log, local, insts, heap, ilog, lockerVars, parkingVars, inventoryVars, jobVars, bookingVars, bmsVars>>

\* lines 35 and 38: if bucket["tokens"] > 0, else return False
TB_L35(t) ==
    /\ pc[t] = "L35"
    /\ IF buckets[user_id[t]].tokens > 0
       THEN /\ pc' = [pc EXCEPT ![t] = "L36"]
            /\ UNCHANGED <<req, created, limiter, buckets, requests, lock, user_id,
                           initAt, clock, log, local, insts, heap, ilog, lockerVars, parkingVars, inventoryVars, jobVars, bookingVars, bmsVars>>
       ELSE /\ FineReturn(t, "False")
            /\ UNCHANGED <<req, created, limiter, buckets, requests, clock, insts, heap, ilog, lockerVars, parkingVars, inventoryVars, jobVars, bookingVars, bmsVars>>

\* lines 36-37: bucket["tokens"] -= 1; return True
TB_L36(t) ==
    /\ pc[t] = "L36"
    /\ buckets' = [buckets EXCEPT ![user_id[t]].tokens = @ - 1]
    /\ FineReturn(t, "True")
    /\ UNCHANGED <<req, created, limiter, requests, clock, insts, heap, ilog, lockerVars, parkingVars, inventoryVars, jobVars, bookingVars, bmsVars>>

\* line 50: now = time.time()
SW_L50(t) ==
    /\ pc[t] = "L50"
    /\ local' = [local EXCEPT ![t].now = clock]
    /\ pc' = [pc EXCEPT ![t] = "L51"]
    /\ UNCHANGED <<req, created, limiter, buckets, requests, lock, user_id, initAt, clock, log, insts, heap, ilog, lockerVars, parkingVars, inventoryVars, jobVars, bookingVars, bmsVars>>

\* line 51: if user_id not in self.requests
SW_L51(t) ==
    /\ pc[t] = "L51"
    /\ pc' = [pc EXCEPT ![t] = IF user_id[t] \in DOMAIN requests THEN "L55" ELSE "L52"]
    /\ UNCHANGED <<req, created, limiter, buckets, requests, lock, user_id, initAt, clock, log, local, insts, heap, ilog, lockerVars, parkingVars, inventoryVars, jobVars, bookingVars, bmsVars>>

\* line 52: self.requests[user_id] = []
SW_L52(t) ==
    /\ pc[t] = "L52"
    /\ requests' = Put(requests, user_id[t], <<>>)
    /\ pc' = [pc EXCEPT ![t] = "L55"]
    /\ UNCHANGED <<req, created, limiter, buckets, lock, user_id, initAt, clock, log, local, insts, heap, ilog, lockerVars, parkingVars, inventoryVars, jobVars, bookingVars, bmsVars>>

\* line 55: the list is replaced by its timestamps still inside the window
SW_L55(t) ==
    /\ pc[t] = "L55"
    /\ requests' = [requests EXCEPT ![user_id[t]] =
                      Prune(@, local[t].now, limiter.window)]
    /\ pc' = [pc EXCEPT ![t] = "L57"]
    /\ UNCHANGED <<req, created, limiter, buckets, lock, user_id, initAt, clock, log, local, insts, heap, ilog, lockerVars, parkingVars, inventoryVars, jobVars, bookingVars, bmsVars>>

\* lines 57 and 60: if len(self.requests[user_id]) < max_requests, else return False
SW_L57(t) ==
    /\ pc[t] = "L57"
    /\ IF SWAdmit(Len(requests[user_id[t]]), limiter.max_requests)
       THEN /\ pc' = [pc EXCEPT ![t] = "L58"]
            /\ UNCHANGED <<req, created, limiter, buckets, requests, lock, user_id,
                           initAt, clock, log, local, insts, heap, ilog, lockerVars, parkingVars, inventoryVars, jobVars, bookingVars, bmsVars>>
       ELSE /\ FineReturn(t, "False")
            /\ UNCHANGED <<req, created, limiter, buckets, requests, clock, insts, heap, ilog, lockerVars, parkingVars, inventoryVars, jobVars, bookingVars, bmsVars>>

\* lines 58-59: self.requests[user_id].append(now); return True
SW_L58(t) ==
    /\ pc[t] = "L58"
    /\ requests' = [requests EXCEPT ![user_id[t]] = Append(@, local[t].now)]
    /\ FineReturn(t, "True")
    /\ UNCHANGED <<req, created, limiter, buckets, clock, insts, heap, ilog, lockerVars, parkingVars, inventoryVars, jobVars, bookingVars, bmsVars>>

(* ------------------------ several limiter objects ---------------------- *)
\* lines 15 and 45: self.buckets = {} and self.requests = {} bind the
\* attribute to a dict object made by this call of __init__; the operator
\* gives the reference of that object in heap h
NewStore_shared(h) == 1

NewStore(h) == Cardinality(DOMAIN h) + 1

\* RateLimiterFactory.create(limiter_type, **kwargs) called again: a further
\* limiter object, with its own store
TwoCreate(cfgs, maxInsts) ==
    /\ Len(insts) < maxInsts
    /\ \E c \in cfgs :
        LET r == create(c.limiter_type, c.n, c.d)
            ref == NewStore(heap)
        IN  /\ r.status = "ok"
            /\ insts' = Append(insts, [req |-> c, limiter |-> r.limiter, store |-> ref])
            /\ heap' = Put(heap, ref, EmptyMap)
            /\ ilog' = Append(ilog, [k \in Keys |-> <<>>])
    /\ UNCHANGED <<req, created, limiter, buckets, requests, lock, pc, user_id, initAt,
                   clock, log, local, lockerVars, parkingVars, inventoryVars, jobVars, bookingVars, bmsVars>>

\* calls made so far on the first n limiter objects
RECURSIVE TwoCallsMade(_)
TwoCallsMade(n) == IF n = 0 THEN 0 ELSE SumLen(ilog[n], Keys) + TwoCallsMade(n - 1)

\* one caller runs is_allowed(k) on limiter object i from its first line to
\* its return; now is the clock value read at line 27 or 50, and a new
\* bucket has the value read before it at line 23
TwoCall(i, k, maxCalls, times) ==
    /\ i \in DOMAIN insts
    /\ TwoCallsMade(Len(ilog)) < maxCalls
    /\ \E now \in times :
        /\ now >= clock
        /\ LET lim == insts[i].limiter
               ref == insts[i].store
               isTB == lim.kind = "token_bucket"
               s1 == IF isTB THEN TBInit(heap[ref], k, lim.capacity, clock) ELSE heap[ref]
               r == IF isTB THEN TBDecide(s1, k, now, lim) ELSE SWDecide(s1, k, now, lim)
               e == [created |-> IF isTB /\ k \notin DOMAIN heap[ref] THEN clock ELSE NoTime,
                     now |-> now, result |-> r.result, waiting |-> FALSE]
           IN  /\ heap' = [heap EXCEPT ![ref] = IF isTB THEN r.buckets ELSE r.requests]
               /\ ilog' = [ilog EXCEPT ![i][k] = Append(@, e)]
        /\ clock' = now
    /\ UNCHANGED <<req, created, limiter, buckets, requests, lock, pc, user_id, initAt,
                   log, local, insts, lockerVars, parkingVars, inventoryVars, jobVars, bookingVars, bmsVars>>

(* --------------------- amazon-locker.py: actions ----------------------- *)
\* the method of thread t ends with result r
Ends(t, r) == [NoAgent EXCEPT !.result = r]

\* the Locker the thread is at, with its lock taken or released by thread t
Locked(t) == [lockers EXCEPT ![agent[t].at].lock = t]

Released(t) == [lockers EXCEPT ![agent[t].at].lock = NoThread]

\* line 58: a thread calls LockerSystem.delivery_package(recipient_name)
Deliver(t, r) ==
    /\ agent[t].pc = "idle"
    /\ id_counter < MaxPackages
    /\ agent' = [agent EXCEPT ![t] =
                   [NoAgent EXCEPT !.op = "deliver", !.pc = "L8", !.recipient = r]]
    /\ UNCHANGED <<id_counter, lockers, limiterVars, parkingVars, inventoryVars, jobVars, bookingVars, bmsVars>>

\* a thread makes a package and calls Locker.put_package on locker i itself
DirectPut(t, i, r) ==
    /\ agent[t].pc = "idle"
    /\ id_counter < MaxPackages
    /\ agent' = [agent EXCEPT ![t] =
                   [NoAgent EXCEPT !.op = "put", !.pc = "L8", !.recipient = r, !.at = i]]
    /\ UNCHANGED <<id_counter, lockers, limiterVars, parkingVars, inventoryVars, jobVars, bookingVars, bmsVars>>

\* lines 7-11 and 59: Package(recipient_name) takes the next id under
\* Package._lock; delivery_package then starts its loop at the first locker
NewPackage(t) ==
    /\ agent[t].pc = "L8"
    /\ id_counter' = id_counter + 1
    /\ agent' = [agent EXCEPT
                   ![t].package = [package_id |-> id_counter + 1,
                                   recipient_name |-> agent[t].recipient],
                   ![t].at = IF agent[t].op = "deliver" THEN 1 ELSE @,
                   ![t].pc = IF agent[t].op = "deliver" THEN "L61" ELSE "L30"]
    /\ UNCHANGED <<lockers, limiterVars, parkingVars, inventoryVars, jobVars, bookingVars, bmsVars>>

\* line 61: with locker.lock, in delivery_package
L61(t) ==
    /\ agent[t].pc = "L61"
    /\ LockFree(lockers[agent[t].at].lock)
    /\ lockers' = Locked(t)
    /\ agent' = [agent EXCEPT ![t].pc = "L62"]
    /\ UNCHANGED <<id_counter, limiterVars, parkingVars, inventoryVars, jobVars, bookingVars, bmsVars>>

\* lines 62-63 and 65: if locker.is_empty() the thread calls put_package with
\* the lock still held; otherwise it leaves the with block and goes to the
\* next locker, or raises when there is none
L62(t) ==
    /\ agent[t].pc = "L62"
    /\ IF lockers[agent[t].at].package = NoPackage
       THEN /\ agent' = [agent EXCEPT ![t].pc = "L30"]
            /\ UNCHANGED lockers
       ELSE /\ lockers' = Released(t)
            /\ agent' = [agent EXCEPT ![t] =
                           IF agent[t].at < NumLockers
                           THEN [@ EXCEPT !.at = @ + 1, !.pc = "L61"]
                           ELSE Ends(t, [NoResult EXCEPT !.kind = "Exception"])]
    /\ UNCHANGED <<id_counter, limiterVars, parkingVars, inventoryVars, jobVars, bookingVars, bmsVars>>

\* line 30: with self.lock, in Locker.put_package; threading.Lock is not
\* reentrant, the thread waits also when it holds the lock itself
L30(t) ==
    /\ agent[t].pc = "L30"
    /\ LockFree(lockers[agent[t].at].lock)
    /\ lockers' = Locked(t)
    /\ agent' = [agent EXCEPT ![t].pc = "L31"]
    /\ UNCHANGED <<id_counter, limiterVars, parkingVars, inventoryVars, jobVars, bookingVars, bmsVars>>

\* lines 31-34 and 64: put_package raises on an occupied locker, else stores
\* the package and leaves the with block; delivery_package then returns
\* (package, locker_id)
L31(t) ==
    /\ agent[t].pc = "L31"
    /\ LET i == agent[t].at
           occupied == lockers[i].package # NoPackage
       IN  /\ lockers' = [lockers EXCEPT
                            ![i].package = IF occupied THEN @ ELSE agent[t].package,
                            ![i].lock = NoThread]
           /\ agent' = [agent EXCEPT ![t] =
                          Ends(t, [kind |-> IF occupied THEN "Exception"
                                            ELSE IF agent[t].op = "deliver" THEN "delivered"
                                            ELSE "stored",
                                   package_id |-> IF occupied THEN 0
                                                  ELSE agent[t].package.package_id,
                                   locker_id |-> IF occupied THEN 0 ELSE i])]
    /\ UNCHANGED <<id_counter, limiterVars, parkingVars, inventoryVars, jobVars, bookingVars, bmsVars>>

\* line 68: a thread calls LockerSystem.retrieve_package(recipient_name)
Retrieve(t, r) ==
    /\ agent[t].pc = "idle"
    /\ agent' = [agent EXCEPT ![t] =
                   [NoAgent EXCEPT !.op = "retrieve", !.pc = "L70", !.recipient = r,
                                   !.at = 1]]
    /\ UNCHANGED <<id_counter, lockers, limiterVars, parkingVars, inventoryVars, jobVars, bookingVars, bmsVars>>

\* a thread calls Locker.retrieve_package on locker i itself
DirectTake(t, i, r) ==
    /\ agent[t].pc = "idle"
    /\ agent' = [agent EXCEPT ![t] =
                   [NoAgent EXCEPT !.op = "take", !.pc = "L37", !.recipient = r, !.at = i]]
    /\ UNCHANGED <<id_counter, lockers, limiterVars, parkingVars, inventoryVars, jobVars, bookingVars, bmsVars>>

\* line 70: with locker.lock, in LockerSystem.retrieve_package
L70(t) ==
    /\ agent[t].pc = "L70"
    /\ LockFree(lockers[agent[t].at].lock)
    /\ lockers' = Locked(t)
    /\ agent' = [agent EXCEPT ![t].pc = "L71"]
    /\ UNCHANGED <<id_counter, limiterVars, parkingVars, inventoryVars, jobVars, bookingVars, bmsVars>>

\* lines 71-75: on a package of the recipient the thread calls
\* locker.retrieve_package with the lock still held; otherwise it leaves the
\* with block and goes to the next locker, or returns None after the last
L71(t) ==
    /\ agent[t].pc = "L71"
    /\ IF lockers[agent[t].at].package.recipient_name = agent[t].recipient
       THEN /\ agent' = [agent EXCEPT ![t].pc = "L37"]
            /\ UNCHANGED lockers
       ELSE /\ lockers' = Released(t)
            /\ agent' = [agent EXCEPT ![t] =
                           IF agent[t].at < NumLockers
                           THEN [@ EXCEPT !.at = @ + 1, !.pc = "L70"]
                           ELSE Ends(t, [NoResult EXCEPT !.kind = "None"])]
    /\ UNCHANGED <<id_counter, limiterVars, parkingVars, inventoryVars, jobVars, bookingVars, bmsVars>>

\* line 37: with self.lock, in Locker.retrieve_package
L37(t) ==
    /\ agent[t].pc = "L37"
    /\ LockFree(lockers[agent[t].at].lock)
    /\ lockers' = Locked(t)
    /\ agent' = [agent EXCEPT ![t].pc = "L38"]
    /\ UNCHANGED <<id_counter, limiterVars, parkingVars, inventoryVars, jobVars, bookingVars, bmsVars>>

\* lines 38-43: the recipient's package is taken out and returned, else None
L38(t) ==
    /\ agent[t].pc = "L38"
    /\ LET i == agent[t].at
           mine == lockers[i].package.recipient_name = agent[t].recipient
       IN  /\ lockers' = [lockers EXCEPT
                            ![i].package = IF mine THEN NoPackage ELSE @,
                            ![i].lock = NoThread]
           /\ agent' = [agent EXCEPT ![t] =
                          Ends(t, IF mine
                                  THEN [kind |-> "package",
                                        package_id |-> lockers[i].package.package_id,
                                        locker_id |-> i]
                                  ELSE [NoResult EXCEPT !.kind = "None"])]
    /\ UNCHANGED <<id_counter, limiterVars, parkingVars, inventoryVars, jobVars, bookingVars, bmsVars>>

(* ----------------------- parking-lot.py: actions ----------------------- *)
\* lines 157-161: add_parking_spot(floor_number, spot_type, spot_id)
add_parking_spot(floor, spot_type) ==
    /\ Len(spots) < MaxSpots
    /\ spots' = Append(spots, [floor |-> floor, spot_type |-> spot_type, vehicle |-> "none"])
    /\ lot_result' = [op |-> "add_parking_spot", arg |-> 0, status |-> "None", value |-> 0]
    /\ UNCHANGED <<active_tickets, ticket_counter, lot_time, limiterVars, lockerVars, inventoryVars, jobVars, bookingVars, bmsVars>>

\* lines 163-178: park_vehicle(vehicle)
park_vehicle(vehicle) ==
    LET i == find_available_spot(spots, vehicle) IN
    IF i = 0
    THEN /\ lot_result' = [op |-> "park_vehicle", arg |-> 0, status |-> "None", value |-> 0]
         /\ UNCHANGED <<spots, active_tickets, ticket_counter, lot_time,
                        limiterVars, lockerVars, inventoryVars, jobVars, bookingVars, bmsVars>>
    ELSE /\ spots' = [spots EXCEPT ![i].vehicle = vehicle]
         /\ ticket_counter' = ticket_counter + 1
         /\ active_tickets' = Put(active_tickets, ticket_counter + 1,
                                  [entry_time |-> lot_time, exit_time |-> NoTime,
                                   spot |-> i, vehicle |-> vehicle, price |-> 0])
         /\ lot_result' = [op |-> "park_vehicle", arg |-> 0, status |-> "ticket",
                           value |-> ticket_counter + 1]
         /\ UNCHANGED <<lot_time, limiterVars, lockerVars, inventoryVars, jobVars, bookingVars, bmsVars>>

\* lines 180-195: exit_vehicle(ticket_id); calculate_price is called at line
\* 188 on the ticket as it is, before close_ticket at line 189
exit_vehicle(ticket_id) ==
    IF ticket_id \notin DOMAIN active_tickets
    THEN /\ lot_result' = [op |-> "exit_vehicle", arg |-> ticket_id, status |-> "ValueError", value |-> 0]
         /\ UNCHANGED <<spots, active_tickets, ticket_counter, lot_time,
                        limiterVars, lockerVars, inventoryVars, jobVars, bookingVars, bmsVars>>
    ELSE LET ticket == active_tickets[ticket_id]
             priced == calculate_price(ticket)
         IN  IF ticket.exit_time # NoTime \/ priced.status = "Exception"
             THEN /\ lot_result' = [op |-> "exit_vehicle", arg |-> ticket_id, status |-> "Exception",
                                    value |-> 0]
                  /\ UNCHANGED <<spots, active_tickets, ticket_counter, lot_time,
                                 limiterVars, lockerVars, inventoryVars, jobVars, bookingVars, bmsVars>>
             ELSE /\ spots' = [spots EXCEPT ![ticket.spot].vehicle = "none"]
                  /\ active_tickets' = [k \in DOMAIN active_tickets \ {ticket_id} |->
                                          active_tickets[k]]
                  /\ lot_result' = [op |-> "exit_vehicle", arg |-> ticket_id, status |-> "price",
                                    value |-> priced.price]
                  /\ UNCHANGED <<ticket_counter, lot_time, limiterVars, lockerVars, inventoryVars, jobVars, bookingVars, bmsVars>>

\* datetime.now() moves on
LotTick ==
    /\ lot_time < MaxLotTime
    /\ lot_time' = lot_time + 1
    /\ UNCHANGED <<spots, active_tickets, ticket_counter, lot_result,
                   limiterVars, lockerVars, inventoryVars, jobVars, bookingVars, bmsVars>>

(* ----------------- inventory with request queue: actions ----------------- *)
\* lines 62-67: add_item(item); add_stock(item.quantity) at line 65 adds the
\* item's own quantity to it once more. The item is added once.
add_item(quantity) ==
    /\ TheItem \notin DOMAIN items
    /\ item_lock = NoThread
    /\ items' = Put(items, TheItem, quantity + quantity)
    /\ request_queue' = Put(request_queue, TheItem, <<>>)
    /\ UNCHANGED <<item_lock, worker, fulfilled, limiterVars, lockerVars, parkingVars, jobVars, bookingVars, bmsVars>>

\* lines 90-91: handle_request starts a thread on request.process
handle_request(t, kind, qty) ==
    /\ worker[t].pc = "idle"
    /\ worker' = [worker EXCEPT ![t] = [IdleWorker EXCEPT !.pc = IF kind = "purchase" THEN "P37" ELSE "R51",
                                                          !.kind = kind, !.qty = qty]]
    /\ UNCHANGED <<items, request_queue, item_lock, fulfilled,
                   limiterVars, lockerVars, parkingVars, jobVars, bookingVars, bmsVars>>

\* lines 37-38 and 40-41: PurchaseRequest.process looks the item up; with no
\* such item the else branch reads item.name of None and raises AttributeError
P_L37(t) ==
    /\ worker[t].pc = "P37"
    /\ worker' = [worker EXCEPT ![t] =
                    IF TheItem \in DOMAIN items
                    THEN [@ EXCEPT !.pc = "RS19", !.cur = t]
                    ELSE [@ EXCEPT !.pc = "done", !.out = "AttributeError"]]
    /\ UNCHANGED <<items, request_queue, item_lock, fulfilled,
                   limiterVars, lockerVars, parkingVars, jobVars, bookingVars, bmsVars>>

\* line 19: remove_stock enters `with self.lock`
RS_L19(t) ==
    /\ worker[t].pc = "RS19"
    /\ ItemLockFree(item_lock)
    /\ item_lock' = t
    /\ worker' = [worker EXCEPT ![t].pc = "RS20", ![t].ok = FALSE]
    /\ UNCHANGED <<items, request_queue, fulfilled, limiterVars, lockerVars, parkingVars, jobVars, bookingVars, bmsVars>>

\* line 20: if self.quantity >= qty
RS_L20(t) ==
    /\ worker[t].pc = "RS20"
    /\ worker' = [worker EXCEPT ![t].pc =
                    IF StockEnough(items[TheItem], QtyOf(worker[t].cur))
                    THEN "RS21" ELSE "RS24"]
    /\ UNCHANGED <<items, request_queue, item_lock, fulfilled,
                   limiterVars, lockerVars, parkingVars, jobVars, bookingVars, bmsVars>>

\* lines 21-23: self.quantity -= qty; return True, leaving the with block
RS_L21(t) ==
    /\ worker[t].pc = "RS21"
    /\ items' = [items EXCEPT ![TheItem] = @ - QtyOf(worker[t].cur)]
    /\ item_lock' = NoThread
    /\ worker' = [worker EXCEPT ![t].ok = TRUE,
                                ![t].pc = IF worker[t].kind = "purchase" THEN "P39" ELSE "Q80"]
    /\ UNCHANGED <<request_queue, fulfilled, limiterVars, lockerVars, parkingVars, jobVars, bookingVars, bmsVars>>

\* line 24: return False, leaving the with block
RS_L24(t) ==
    /\ worker[t].pc = "RS24"
    /\ item_lock' = NoThread
    /\ worker' = [worker EXCEPT ![t].ok = FALSE,
                                ![t].pc = IF worker[t].kind = "purchase" THEN "P42" ELSE "Q83"]
    /\ UNCHANGED <<items, request_queue, fulfilled, limiterVars, lockerVars, parkingVars, jobVars, bookingVars, bmsVars>>

\* line 39: "Purchase fulfilled", and process returns
P_L39(t) ==
    /\ worker[t].pc = "P39"
    /\ fulfilled' = fulfilled \cup {worker[t].cur}
    /\ worker' = [worker EXCEPT ![t].pc = "done", ![t].out = "returned"]
    /\ UNCHANGED <<items, request_queue, item_lock, limiterVars, lockerVars, parkingVars, jobVars, bookingVars, bmsVars>>

\* lines 41-42: "queued"; inventory.queue_request(self), and process returns
P_L42(t) ==
    /\ worker[t].pc = "P42"
    /\ request_queue' = [request_queue EXCEPT ![TheItem] = Append(@, worker[t].cur)]
    /\ worker' = [worker EXCEPT ![t].pc = "done", ![t].out = "returned"]
    /\ UNCHANGED <<items, item_lock, fulfilled, limiterVars, lockerVars, parkingVars, jobVars, bookingVars, bmsVars>>

\* lines 51-52: RestockRequest.process looks the item up; with no such item
\* it returns
R_L51(t) ==
    /\ worker[t].pc = "R51"
    /\ worker' = [worker EXCEPT ![t] =
                    IF TheItem \in DOMAIN items
                    THEN [@ EXCEPT !.pc = "AS14"]
                    ELSE [@ EXCEPT !.pc = "done", !.out = "returned"]]
    /\ UNCHANGED <<items, request_queue, item_lock, fulfilled,
                   limiterVars, lockerVars, parkingVars, jobVars, bookingVars, bmsVars>>

\* line 14: add_stock enters `with self.lock`
AS_L14(t) ==
    /\ worker[t].pc = "AS14"
    /\ ItemLockFree(item_lock)
    /\ item_lock' = t
    /\ worker' = [worker EXCEPT ![t].pc = "AS15"]
    /\ UNCHANGED <<items, request_queue, fulfilled, limiterVars, lockerVars, parkingVars, jobVars, bookingVars, bmsVars>>

\* lines 15-16: self.quantity += qty, leaving the with block
AS_L15(t) ==
    /\ worker[t].pc = "AS15"
    /\ items' = [items EXCEPT ![TheItem] = @ + worker[t].qty]
    /\ item_lock' = NoThread
    /\ worker' = [worker EXCEPT ![t].pc = "Q77"]
    /\ UNCHANGED <<request_queue, fulfilled, limiterVars, lockerVars, parkingVars, jobVars, bookingVars, bmsVars>>

\* lines 76-77: while not queue.empty()
Q_L77(t) ==
    /\ worker[t].pc = "Q77"
    /\ worker' = [worker EXCEPT ![t] =
                    IF request_queue[TheItem] = <<>>
                    THEN [@ EXCEPT !.pc = "done", !.out = "returned"]
                    ELSE [@ EXCEPT !.pc = "Q78"]]
    /\ UNCHANGED <<items, request_queue, item_lock, fulfilled,
                   limiterVars, lockerVars, parkingVars, jobVars, bookingVars, bmsVars>>

\* line 78: req = queue.get(), which waits while the queue is empty; then
\* line 79 calls item.remove_stock(req.qty)
Q_L78(t) ==
    /\ worker[t].pc = "Q78"
    /\ request_queue[TheItem] # <<>>
    /\ request_queue' = [request_queue EXCEPT ![TheItem] = Tail(@)]
    /\ worker' = [worker EXCEPT ![t].pc = "RS19", ![t].cur = Head(request_queue[TheItem])]
    /\ UNCHANGED <<items, item_lock, fulfilled, limiterVars, lockerVars, parkingVars, jobVars, bookingVars, bmsVars>>

\* line 80: "Queued purchase fulfilled", and the loop goes round
Q_L80(t) ==
    /\ worker[t].pc = "Q80"
    /\ fulfilled' = fulfilled \cup {worker[t].cur}
    /\ worker' = [worker EXCEPT ![t].pc = "Q77"]
    /\ UNCHANGED <<items, request_queue, item_lock, limiterVars, lockerVars, parkingVars, jobVars, bookingVars, bmsVars>>

\* lines 82-84: self.queue_request(req) puts the request at the back of the
\* queue; break, and process returns
Q_L83(t) ==
    /\ worker[t].pc = "Q83"
    /\ request_queue' = [request_queue EXCEPT ![TheItem] = Append(@, worker[t].cur)]
    /\ worker' = [worker EXCEPT ![t].pc = "done", ![t].out = "returned"]
    /\ UNCHANGED <<items, item_lock, fulfilled, limiterVars, lockerVars, parkingVars, jobVars, bookingVars, bmsVars>>

(* ------------------------ job-scheduler.py: actions ------------------------ *)
\* lines 65-73: schedule(job, run_at, interval) makes the ScheduledJob (lines
\* 21-28) and starts its executor thread; scheduled_for keeps the run_at that
\* was asked for
schedule(run_at, interval) ==
    /\ JobIds \ DOMAIN jobs # {}
    /\ canceller.pc = "idle"
    /\ jobs' = Put(jobs, NewJobId, [run_at |-> run_at, interval |-> interval,
                                    status |-> "SCHEDULED", cancel_event |-> FALSE,
                                    scheduled_for |-> run_at])
    /\ executor' = Put(executor, NewJobId, [pc |-> "L42", runs |-> 0, wake |-> 0])
    /\ UNCHANGED <<job_time, canceller, cancel_returned,
                   limiterVars, lockerVars, parkingVars, inventoryVars, bookingVars, bmsVars>>

\* lines 76-78 and 81: cancel(job_id) takes self.lock and looks the job up;
\* with no such job it returns False. One thread calls schedule and cancel,
\* so self.lock and the job's lock are free whenever it asks for them.
C_L76(job_id) ==
    /\ canceller.pc = "idle"
    /\ canceller' = IF job_id \in DOMAIN jobs
                    THEN [pc |-> "L32", job |-> job_id]
                    ELSE IdleCanceller
    /\ UNCHANGED <<jobs, executor, job_time, cancel_returned,
                   limiterVars, lockerVars, parkingVars, inventoryVars, bookingVars, bmsVars>>

\* lines 31-32: ScheduledJob.cancel, self.status = JobStatus.CANCELLED
C_L32 ==
    /\ canceller.pc = "L32"
    /\ jobs' = [jobs EXCEPT ![canceller.job].status = "CANCELLED"]
    /\ canceller' = [canceller EXCEPT !.pc = "L33"]
    /\ UNCHANGED <<executor, job_time, cancel_returned,
                   limiterVars, lockerVars, parkingVars, inventoryVars, bookingVars, bmsVars>>

\* line 33: self.cancel_event.set()
C_L33 ==
    /\ canceller.pc = "L33"
    /\ jobs' = [jobs EXCEPT ![canceller.job].cancel_event = TRUE]
    /\ canceller' = [canceller EXCEPT !.pc = "L80"]
    /\ UNCHANGED <<executor, job_time, cancel_returned,
                   limiterVars, lockerVars, parkingVars, inventoryVars, bookingVars, bmsVars>>

\* line 80: return True
C_L80 ==
    /\ canceller.pc = "L80"
    /\ cancel_returned' = cancel_returned \cup {canceller.job}
    /\ canceller' = IdleCanceller
    /\ UNCHANGED <<jobs, executor, job_time,
                   limiterVars, lockerVars, parkingVars, inventoryVars, bookingVars, bmsVars>>

\* line 42: while not job.cancel_event.is_set()
JE_L42(j) ==
    /\ j \in DOMAIN executor /\ executor[j].pc = "L42"
    /\ executor' = [executor EXCEPT ![j].pc = IF LoopGoesOn(jobs[j]) THEN "L43" ELSE "done"]
    /\ UNCHANGED <<jobs, job_time, canceller, cancel_returned,
                   limiterVars, lockerVars, parkingVars, inventoryVars, bookingVars, bmsVars>>

\* lines 43-44: now = datetime.now(); if now >= job.run_at
JE_L43(j) ==
    /\ j \in DOMAIN executor /\ executor[j].pc = "L43"
    /\ executor' = [executor EXCEPT ![j].pc = IF Due(job_time, jobs[j].run_at)
                                              THEN "L45" ELSE "L58"]
    /\ UNCHANGED <<jobs, job_time, canceller, cancel_returned,
                   limiterVars, lockerVars, parkingVars, inventoryVars, bookingVars, bmsVars>>

\* line 45: job.status = JobStatus.RUNNING
JE_L45(j) ==
    /\ j \in DOMAIN executor /\ executor[j].pc = "L45"
    /\ jobs' = [jobs EXCEPT ![j].status = "RUNNING"]
    /\ executor' = [executor EXCEPT ![j].pc = "L47"]
    /\ UNCHANGED <<job_time, canceller, cancel_returned,
                   limiterVars, lockerVars, parkingVars, inventoryVars, bookingVars, bmsVars>>

\* line 47: job.job.run(), which returns or raises an Exception
JE_L47(j, raises) ==
    /\ j \in DOMAIN executor /\ executor[j].pc = "L47"
    /\ executor' = [executor EXCEPT ![j].pc = IF raises THEN "L51" ELSE "L48",
                                    ![j].runs = @ + 1]
    /\ UNCHANGED <<jobs, job_time, canceller, cancel_returned,
                   limiterVars, lockerVars, parkingVars, inventoryVars, bookingVars, bmsVars>>

\* line 48: job.status = JobStatus.COMPLETED
JE_L48(j) ==
    /\ j \in DOMAIN executor /\ executor[j].pc = "L48"
    /\ jobs' = [jobs EXCEPT ![j].status = "COMPLETED"]
    /\ executor' = [executor EXCEPT ![j].pc = "L53"]
    /\ UNCHANGED <<job_time, canceller, cancel_returned,
                   limiterVars, lockerVars, parkingVars, inventoryVars, bookingVars, bmsVars>>

\* lines 49-51: job.status = JobStatus.FAILED
JE_L51(j) ==
    /\ j \in DOMAIN executor /\ executor[j].pc = "L51"
    /\ jobs' = [jobs EXCEPT ![j].status = "FAILED"]
    /\ executor' = [executor EXCEPT ![j].pc = "L53"]
    /\ UNCHANGED <<job_time, canceller, cancel_returned,
                   limiterVars, lockerVars, parkingVars, inventoryVars, bookingVars, bmsVars>>

\* lines 53-56: a one-time job breaks out of the loop and the thread ends; a
\* recurring job gets its next run_at
JE_L53(j) ==
    /\ j \in DOMAIN executor /\ executor[j].pc = "L53"
    /\ IF jobs[j].interval = NoInterval
       THEN /\ executor' = [executor EXCEPT ![j].pc = "done"]
            /\ UNCHANGED jobs
       ELSE /\ jobs' = [jobs EXCEPT ![j].run_at = NextRunAt(@, jobs[j].interval)]
            /\ executor' = [executor EXCEPT ![j].pc = "L57"]
    /\ UNCHANGED <<job_time, canceller, cancel_returned,
                   limiterVars, lockerVars, parkingVars, inventoryVars, bookingVars, bmsVars>>

\* line 57: job.status = JobStatus.SCHEDULED
JE_L57(j) ==
    /\ j \in DOMAIN executor /\ executor[j].pc = "L57"
    /\ jobs' = [jobs EXCEPT ![j].status = "SCHEDULED"]
    /\ executor' = [executor EXCEPT ![j].pc = "L58"]
    /\ UNCHANGED <<job_time, canceller, cancel_returned,
                   limiterVars, lockerVars, parkingVars, inventoryVars, bookingVars, bmsVars>>

\* line 58: time.sleep(1) starts
JE_L58(j) ==
    /\ j \in DOMAIN executor /\ executor[j].pc = "L58"
    /\ executor' = [executor EXCEPT ![j].pc = "sleep", ![j].wake = job_time + 1]
    /\ UNCHANGED <<jobs, job_time, canceller, cancel_returned,
                   limiterVars, lockerVars, parkingVars, inventoryVars, bookingVars, bmsVars>>

\* line 58: time.sleep(1) ends once a second has gone by
JE_wake(j) ==
    /\ j \in DOMAIN executor /\ executor[j].pc = "sleep"
    /\ job_time >= executor[j].wake
    /\ executor' = [executor EXCEPT ![j].pc = "L42", ![j].wake = 0]
    /\ UNCHANGED <<jobs, job_time, canceller, cancel_returned,
                   limiterVars, lockerVars, parkingVars, inventoryVars, bookingVars, bmsVars>>

\* datetime.now() moves on by a second
JobTick ==
    /\ job_time < MaxJobTime
    /\ job_time' = job_time + 1
    /\ UNCHANGED <<jobs, executor, canceller, cancel_returned,
                   limiterVars, lockerVars, parkingVars, inventoryVars, bookingVars, bmsVars>>

(* ------------------------ booking_system.py: actions ------------------------ *)
\* lines 80-100: book_seats(user, seat_numbers, payment, amount), called by
\* one thread at a time
book_seats(seat_numbers) ==
    LET r == BookLoop(seat_booked, seat_numbers, 1, <<>>) IN
    /\ seat_booked' = r.booked
    /\ IF r.ok
       THEN /\ Len(bookings) < MaxBookings
            /\ booking_counter' = booking_counter + 1
            /\ bookings' = Append(bookings, [booking_id |-> booking_counter + 1,
                                             seats |-> r.seats_to_book])
            /\ book_result' = [status |-> "booking", booking_id |-> booking_counter + 1]
       ELSE /\ book_result' = [status |-> "None", booking_id |-> 0]
            /\ UNCHANGED <<bookings, booking_counter, bmsVars>>
    /\ UNCHANGED <<limiterVars, lockerVars, parkingVars, inventoryVars, jobVars, bmsVars>>

(* ---------------------- bms_ticket_system.py: actions ---------------------- *)
\* lines 222-226: BookingSystem.book(user_id, showtime_id, seat_numbers) calls
\* showtime.book_seats(seat_numbers)
book(t, seat_numbers) ==
    /\ booker[t].pc = "idle"
    /\ Len(show_bookings) < MaxShowBookings
    /\ booker' = [booker EXCEPT ![t] = [IdleBooker EXCEPT !.pc = "L113",
                                                          !.seat_numbers = seat_numbers]]
    /\ UNCHANGED <<show_seats, show_lock, show_bookings,
                   limiterVars, lockerVars, parkingVars, inventoryVars, jobVars, bookingVars>>

\* lines 111-113: with Showtime._lock
SB_L113(t) ==
    /\ booker[t].pc = "L113"
    /\ show_lock = NoThread
    /\ show_lock' = t
    /\ booker' = [booker EXCEPT ![t].pc = "L114", ![t].i = 1]
    /\ UNCHANGED <<show_seats, show_bookings,
                   limiterVars, lockerVars, parkingVars, inventoryVars, jobVars, bookingVars>>

\* lines 114-124: one round of the first loop; a missing seat or a booked
\* seat returns None, leaving the with block, and book returns None too
\* (lines 227-229)
SB_L114(t) ==
    /\ booker[t].pc = "L114"
    /\ LET b == booker[t] IN
       IF b.i > Len(b.seat_numbers)
       THEN /\ booker' = [booker EXCEPT ![t].pc = "L126", ![t].i = 1]
            /\ UNCHANGED show_lock
       ELSE LET seat_number == b.seat_numbers[b.i] IN
            IF seat_number \notin DOMAIN show_seats \/ show_seats[seat_number]
            THEN /\ booker' = [booker EXCEPT ![t] = IdleBooker]
                 /\ show_lock' = NoThread
            ELSE /\ booker' = [booker EXCEPT ![t].i = @ + 1,
                                             ![t].seats_to_book = Append(@, seat_number)]
                 /\ UNCHANGED show_lock
    /\ UNCHANGED <<show_seats, show_bookings,
                   limiterVars, lockerVars, parkingVars, inventoryVars, jobVars, bookingVars>>

\* lines 126-129: one round of the second loop, seat.book() (lines 76-82)
\* whose answer is not looked at; after the last round the with block is
\* left and seats_to_book is returned
SB_L126(t) ==
    /\ booker[t].pc = "L126"
    /\ LET b == booker[t] IN
       IF b.i > Len(b.seats_to_book)
       THEN /\ booker' = [booker EXCEPT ![t].pc = "L231"]
            /\ show_lock' = NoThread
            /\ UNCHANGED show_seats
       ELSE /\ show_seats' = [show_seats EXCEPT ![b.seats_to_book[b.i]] = TRUE]
            /\ booker' = [booker EXCEPT ![t].i = @ + 1]
            /\ UNCHANGED show_lock
    /\ UNCHANGED <<show_bookings,
                   limiterVars, lockerVars, parkingVars, inventoryVars, jobVars, bookingVars>>

\* lines 231-235 and 149-158: the Booking is made with status PENDING and
\* kept; the position in show_bookings stands for the Booking object
BK_L231(t) ==
    /\ booker[t].pc = "L231"
    /\ show_bookings' = Append(show_bookings, [seats |-> booker[t].seats_to_book,
                                               status |-> "PENDING"])
    /\ booker' = [booker EXCEPT ![t] = IdleBooker]
    /\ UNCHANGED <<show_seats, show_lock,
                   limiterVars, lockerVars, parkingVars, inventoryVars, jobVars, bookingVars>>

\* line 179: booking.cancel() is called
cancel(t, b) ==
    /\ booker[t].pc = "idle"
    /\ b \in 1..Len(show_bookings)
    /\ booker' = [booker EXCEPT ![t] = [IdleBooker EXCEPT !.pc = "L181", !.booking = b]]
    /\ UNCHANGED <<show_seats, show_lock, show_bookings,
                   limiterVars, lockerVars, parkingVars, inventoryVars, jobVars, bookingVars>>

\* lines 181-183: an already cancelled booking returns
K_L181(t) ==
    /\ booker[t].pc = "L181"
    /\ booker' = [booker EXCEPT ![t] =
                    IF show_bookings[booker[t].booking].status = "CANCELLED"
                    THEN IdleBooker ELSE [@ EXCEPT !.pc = "L185"]]
    /\ UNCHANGED <<show_seats, show_lock, show_bookings,
                   limiterVars, lockerVars, parkingVars, inventoryVars, jobVars, bookingVars>>

\* lines 185 and 191-192: the status is read again
K_L185(t) ==
    /\ booker[t].pc = "L185"
    /\ booker' = [booker EXCEPT ![t] =
                    IF show_bookings[booker[t].booking].status \in {"CONFIRMED", "PENDING"}
                    THEN [@ EXCEPT !.pc = "L186", !.i = 1] ELSE IdleBooker]
    /\ UNCHANGED <<show_seats, show_lock, show_bookings,
                   limiterVars, lockerVars, parkingVars, inventoryVars, jobVars, bookingVars>>

\* lines 186-187: one round of the loop, seat._booked = False
K_L186(t) ==
    /\ booker[t].pc = "L186"
    /\ LET b == booker[t]
           seats == show_bookings[b.booking].seats
       IN  IF b.i > Len(seats)
           THEN /\ booker' = [booker EXCEPT ![t].pc = "L188"]
                /\ UNCHANGED show_seats
           ELSE /\ show_seats' = [show_seats EXCEPT ![seats[b.i]] = FALSE]
                /\ booker' = [booker EXCEPT ![t].i = @ + 1]
    /\ UNCHANGED <<show_lock, show_bookings,
                   limiterVars, lockerVars, parkingVars, inventoryVars, jobVars, bookingVars>>

\* lines 188-190: self._status = "CANCELLED"
K_L188(t) ==
    /\ booker[t].pc = "L188"
    /\ show_bookings' = [show_bookings EXCEPT ![booker[t].booking].status = "CANCELLED"]
    /\ booker' = [booker EXCEPT ![t] = IdleBooker]
    /\ UNCHANGED <<show_seats, show_lock,
                   limiterVars, lockerVars, parkingVars, inventoryVars, jobVars, bookingVars>>

(* -------------------------- specifications ----------------------------- *)
\* the general specification: every small configuration, both keys
Configs ==
    {[limiter_type |-> ty, n |-> n, d |-> d] :
        ty \in {"token_bucket", "sliding_window"}, n \in 0..MaxParam, d \in 0..MaxParam}
    \cup {[limiter_type |-> "unknown_algo", n |-> 1, d |-> 1]}

Next ==
    \/ Create(Configs)
    \/ \E t \in Threads, k \in Keys : Call(t, k, MaxCalls)
    \/ \E t \in Threads : Acquire(t)
    \/ \E t \in Threads : TBInitStep(t)
    \/ \E t \in Threads : TBDecideStep(t)
    \/ \E t \in Threads : SWDecideStep(t)
    \/ AdvanceClock(0..MaxTime)

Spec == Init /\ [][Next]_vars

\* the scenario specification: the two configurations of the worked examples,
\* one key, and the clock values the examples name
ScenarioConfigs ==
    {[limiter_type |-> "token_bucket", n |-> 3, d |-> 20],
     [limiter_type |-> "sliding_window", n |-> 5, d |-> 60]}

ScenarioTimes == {0, 19, 20, 30, 60, 61}

\* the examples are sequential: one caller
ScenarioThreads == {1}

NextScenario ==
    \/ Create(ScenarioConfigs)
    \/ \E t \in ScenarioThreads : Call(t, "B", ScenarioCalls)
    \/ \E t \in ScenarioThreads : Acquire(t)
    \/ \E t \in ScenarioThreads : TBInitStep(t)
    \/ \E t \in ScenarioThreads : TBDecideStep(t)
    \/ \E t \in ScenarioThreads : SWDecideStep(t)
    \/ AdvanceClock(ScenarioTimes)

SpecScenario == Init /\ [][NextScenario]_vars

\* the sequential specification: one caller and one key on a limiter built
\* with positive arguments, over more calls and a longer clock
SequentialConfigs ==
    {[limiter_type |-> ty, n |-> n, d |-> d] :
        ty \in {"token_bucket", "sliding_window"}, n \in 1..MaxParam, d \in 1..MaxParam}

NextSequential ==
    \/ Create(SequentialConfigs)
    \/ \E t \in ScenarioThreads : Call(t, "B", SequentialCalls)
    \/ \E t \in ScenarioThreads : Acquire(t)
    \/ \E t \in ScenarioThreads : TBInitStep(t)
    \/ \E t \in ScenarioThreads : TBDecideStep(t)
    \/ \E t \in ScenarioThreads : SWDecideStep(t)
    \/ AdvanceClock(0..SequentialTime)

SpecSequential == Init /\ [][NextSequential]_vars

\* the backward-clock specification: a token bucket, one caller, both keys,
\* and a clock that moves forward and backward between the reads
BackwardConfigs ==
    {[limiter_type |-> "token_bucket", n |-> n, d |-> d] :
        n \in 0..MaxParam, d \in 0..MaxParam}

NextBackward ==
    \/ Create(BackwardConfigs)
    \/ \E t \in ScenarioThreads, k \in Keys : Call(t, k, BackwardCalls)
    \/ \E t \in ScenarioThreads : Acquire(t)
    \/ \E t \in ScenarioThreads : TBInitStep(t)
    \/ \E t \in ScenarioThreads : TBDecideStep(t)
    \/ SetClock(0..BackwardTime)

SpecBackward == Init /\ [][NextBackward]_vars

\* the statement-level specification: two callers, both keys, limiters built
\* with small arguments
FineThreads == {1, 2}

FineConfigs ==
    {[limiter_type |-> ty, n |-> n, d |-> d] :
        ty \in {"token_bucket", "sliding_window"}, n \in 1..MaxParam, d \in 0..MaxParam}

NextFine ==
    \/ Create(FineConfigs)
    \/ \E t \in FineThreads, k \in Keys : FineCall(t, k, FineCalls)
    \/ \E t \in FineThreads : FineAcquire(t)
    \/ \E t \in FineThreads : TB_L20(t)
    \/ \E t \in FineThreads : TB_L21(t)
    \/ \E t \in FineThreads : TB_L27(t)
    \/ \E t \in FineThreads : TB_L28(t)
    \/ \E t \in FineThreads : TB_L31(t)
    \/ \E t \in FineThreads : TB_L33(t)
    \/ \E t \in FineThreads : TB_L35(t)
    \/ \E t \in FineThreads : TB_L36(t)
    \/ \E t \in FineThreads : SW_L50(t)
    \/ \E t \in FineThreads : SW_L51(t)
    \/ \E t \in FineThreads : SW_L52(t)
    \/ \E t \in FineThreads : SW_L55(t)
    \/ \E t \in FineThreads : SW_L57(t)
    \/ \E t \in FineThreads : SW_L58(t)
    \/ AdvanceClock(0..FineTime)

SpecFine == Init /\ [][NextFine]_vars

\* the fair specification: two callers and both keys under fair scheduling.
\* A thread inside the with block keeps running (weak fairness of its steps),
\* and a thread waiting at the with statement gets the lock if the lock is
\* free again and again (strong fairness of the acquisition).
FairConfigs ==
    {[limiter_type |-> ty, n |-> 1, d |-> d] :
        ty \in {"token_bucket", "sliding_window"}, d \in 0..1}

InsideSteps(t) == TBInitStep(t) \/ TBDecideStep(t) \/ SWDecideStep(t)

NextFair ==
    \/ Create(FairConfigs)
    \/ \E t \in FineThreads, k \in Keys : Call(t, k, FairCalls)
    \/ \E t \in FineThreads : Acquire(t)
    \/ \E t \in FineThreads : TBInitStep(t)
    \/ \E t \in FineThreads : TBDecideStep(t)
    \/ \E t \in FineThreads : SWDecideStep(t)
    \/ AdvanceClock(0..FairTime)

SpecFair ==
    /\ Init
    /\ [][NextFair]_vars
    /\ \A t \in FineThreads : WF_vars(InsideSteps(t)) /\ SF_vars(Acquire(t))

\* the two-limiter specification: two limiter objects made by the factory, one
\* caller, both keys
TwoLimiters == {1, 2}

TwoConfigs ==
    {[limiter_type |-> ty, n |-> n, d |-> d] :
        ty \in {"token_bucket", "sliding_window"}, n \in 1..MaxParam, d \in 1..MaxParam}

NextTwo ==
    \/ TwoCreate(TwoConfigs, Cardinality(TwoLimiters))
    \/ \E i \in TwoLimiters, k \in Keys : TwoCall(i, k, TwoCalls, 0..TwoTime)
    \/ AdvanceClock(0..TwoTime)

SpecTwo == Init /\ [][NextTwo]_vars

\* the locker specification: two threads that call the locker system and its
\* lockers, under strongly fair scheduling of every thread
LockerStep(t) ==
    \/ NewPackage(t) \/ L61(t) \/ L62(t) \/ L30(t) \/ L31(t)
    \/ L70(t) \/ L71(t) \/ L37(t) \/ L38(t)

NextLocker ==
    \/ \E t \in LockerThreads, r \in Recipients : Deliver(t, r)
    \/ \E t \in LockerThreads, r \in Recipients, i \in 1..NumLockers : DirectPut(t, i, r)
    \/ \E t \in LockerThreads, r \in Recipients : Retrieve(t, r)
    \/ \E t \in LockerThreads, r \in Recipients, i \in 1..NumLockers : DirectTake(t, i, r)
    \/ \E t \in LockerThreads : NewPackage(t)
    \/ \E t \in LockerThreads : L61(t)
    \/ \E t \in LockerThreads : L62(t)
    \/ \E t \in LockerThreads : L30(t)
    \/ \E t \in LockerThreads : L31(t)
    \/ \E t \in LockerThreads : L70(t)
    \/ \E t \in LockerThreads : L71(t)
    \/ \E t \in LockerThreads : L37(t)
    \/ \E t \in LockerThreads : L38(t)

SpecLocker ==
    /\ Init
    /\ [][NextLocker]_vars
    /\ \A t \in LockerThreads : SF_vars(LockerStep(t))

\* the parking specification: one caller adds spots, parks and exits vehicles
NextParking ==
    \/ \E f \in Floors, ty \in SpotTypes : add_parking_spot(f, ty)
    \/ \E v \in VehicleTypes : park_vehicle(v)
    \/ \E id \in 1..MaxTicketId : exit_vehicle(id)
    \/ LotTick

SpecParking == Init /\ [][NextParking]_vars

\* the inventory specification: the item is added, and every request runs
\* in a thread of its own
InvStep(t) ==
    \/ P_L37(t) \/ RS_L19(t) \/ RS_L20(t) \/ RS_L21(t) \/ RS_L24(t)
    \/ P_L39(t) \/ P_L42(t) \/ R_L51(t) \/ AS_L14(t) \/ AS_L15(t)
    \/ Q_L77(t) \/ Q_L78(t) \/ Q_L80(t) \/ Q_L83(t)

NextInventory ==
    \/ \E q \in 0..MaxQty : add_item(q)
    \/ \E t \in InvThreads, k \in {"purchase", "restock"}, n \in 1..MaxQty :
           handle_request(t, k, n)
    \/ \E t \in InvThreads : InvStep(t)

SpecInventory == Init /\ [][NextInventory]_vars

\* the job specification: one thread schedules and cancels jobs, every job
\* has an executor thread, and each executor thread keeps being scheduled
JEStep(j) ==
    \/ JE_L42(j) \/ JE_L43(j) \/ JE_L45(j) \/ \E raises \in BOOLEAN : JE_L47(j, raises)
    \/ JE_L48(j) \/ JE_L51(j) \/ JE_L53(j) \/ JE_L57(j) \/ JE_L58(j) \/ JE_wake(j)

NextJobs ==
    \/ \E r \in 0..MaxJobTime, i \in {NoInterval} \cup 0..MaxInterval : schedule(r, i)
    \/ \E j \in JobIds : C_L76(j)
    \/ C_L32 \/ C_L33 \/ C_L80
    \/ \E j \in JobIds : JEStep(j)
    \/ JobTick

SpecJobs == Init /\ [][NextJobs]_vars /\ \A j \in JobIds : WF_vars(JEStep(j))

\* the seat booking specification: one caller books lists of seats
NextBooking == \E seat_numbers \in SeatRequests : book_seats(seat_numbers)

SpecBooking == Init /\ [][NextBooking]_vars

\* the ticket system specification: two threads book seats of one showtime
\* and cancel bookings
NextBms ==
    \/ \E t \in BmsThreads, seat_numbers \in ShowRequests : book(t, seat_numbers)
    \/ \E t \in BmsThreads, b \in 1..MaxShowBookings : cancel(t, b)
    \/ \E t \in BmsThreads :
          \/ SB_L113(t) \/ SB_L114(t) \/ SB_L126(t) \/ BK_L231(t)
          \/ K_L181(t) \/ K_L185(t) \/ K_L186(t) \/ K_L188(t)

SpecBms == Init /\ [][NextBms]_vars

(* ------------------------- reading the log ----------------------------- *)
\* indices of the admitted calls of key k among the first j
AdmitsUpTo(k, j) == {i \in 1..j : log[k][i].result = "True"}

Admitted(k) == AdmitsUpTo(k, Len(log[k]))

Denied(k) == {i \in DOMAIN log[k] : log[k][i].result = "False"}

\* no call for key k is between its first and its last line
Quiet(k) == lock = NoThread \/ user_id[lock] # k

\* the calls logged for key k run alone on a fresh token bucket
RECURSIVE ReplayTB(_, _, _, _)
ReplayTB(L, i, bkts, k) ==
    IF i > Len(L) THEN [ok |-> TRUE, state |-> bkts]
    ELSE LET e == L[i]
             b1 == TBInit(bkts, k, limiter.capacity,
                          IF e.created = NoTime THEN e.now ELSE e.created)
             r == TBDecide(b1, k, e.now, limiter)
         IN  IF r.result = e.result
             THEN ReplayTB(L, i + 1, r.buckets, k)
             ELSE [ok |-> FALSE, state |-> r.buckets]

\* the calls logged for key k run alone on a fresh sliding window
RECURSIVE ReplaySW(_, _, _, _)
ReplaySW(L, i, reqs, k) ==
    IF i > Len(L) THEN [ok |-> TRUE, state |-> reqs]
    ELSE LET e == L[i]
             r == SWDecide(reqs, k, e.now, limiter)
         IN  IF r.result = e.result
             THEN ReplaySW(L, i + 1, r.requests, k)
             ELSE [ok |-> FALSE, state |-> r.requests]

\* the stored state of key k is what the replay of its own calls leaves
SameKeyState(store, replayed, k) ==
    /\ (k \in DOMAIN store) = (k \in DOMAIN replayed)
    /\ k \in DOMAIN store => store[k] = replayed[k]

(* ------------------------------ claims --------------------------------- *)

\* C1 (sliding bound): on a sliding-window limiter, for every key and every
\* window [a, a + window) of clock time, the calls for that key that returned
\* True with their time in the window number at most max_requests.
C1_SlidingBound ==
    limiter.kind = "sliding_window" =>
        \A k \in Keys : \A a \in 0..clock :
            Cardinality({i \in Admitted(k) :
                            /\ a <= log[k][i].now
                            /\ log[k][i].now < a + limiter.window})
                <= limiter.max_requests

\* C1 witness: a key was admitted, then denied by the bound, then admitted
\* again once the first admit had left the window.
C1_Witness ==
    /\ limiter.kind = "sliding_window"
    /\ limiter.max_requests >= 1
    /\ \E k \in Keys : \E i, j, l \in DOMAIN log[k] :
        /\ i < j /\ j < l
        /\ log[k][i].result = "True"
        /\ log[k][j].result = "False"
        /\ log[k][l].result = "True"

\* admitted calls of key k among the first j whose time is from or later
AdmitsSince(k, j, from) == {i \in AdmitsUpTo(k, j) : log[k][i].now >= from}

\* capacity * refill_interval, the length of the window of the bucket bound
BucketWindow == limiter.capacity * limiter.refill_interval

\* C2 as stated (bucket bound): on a token bucket, at every call, at most
\* capacity calls of the key were admitted in the trailing window
\* (now - capacity * refill_interval, now].
C2_BucketBound_AsStated ==
    limiter.kind = "token_bucket" =>
        \A k \in Keys : \A j \in DOMAIN log[k] :
            Cardinality(AdmitsSince(k, j, log[k][j].now - BucketWindow + 1))
                <= limiter.capacity

\* C2 amended (bucket bound): on a token bucket with a clock that does not go
\* back, at every call at most 2 * capacity calls of the key were admitted in
\* the trailing window [now - capacity * refill_interval, now]: a burst of
\* capacity and the capacity tokens refilled inside the window.
C2_BucketBound ==
    limiter.kind = "token_bucket" =>
        \A k \in Keys : \A j \in DOMAIN log[k] :
            Cardinality(AdmitsSince(k, j, log[k][j].now - BucketWindow))
                <= 2 * limiter.capacity

\* C2 witness: with capacity 2 or more, a key was admitted 2 * capacity >
\* capacity times inside one trailing window.
C2_Witness ==
    /\ limiter.kind = "token_bucket"
    /\ limiter.capacity >= 2
    /\ limiter.refill_interval >= 1
    /\ \E k \in Keys : \E j \in DOMAIN log[k] :
        Cardinality(AdmitsSince(k, j, log[k][j].now - BucketWindow))
            = 2 * limiter.capacity

\* the calls logged for key k were all made at one clock time on a key that
\* the first of them created
Simultaneous(k) ==
    /\ log[k] # <<>>
    /\ log[k][1].created = log[k][1].now
    /\ \A i \in DOMAIN log[k] : log[k][i].now = log[k][1].now

\* C3 (race freedom): on a token bucket whose refill_interval is a positive
\* duration, when N >= capacity calls for one new key were made at one clock
\* time, in any interleaving of the threads, exactly capacity of them returned
\* True and the other N - capacity returned False.
C3_RaceFreedom ==
    (limiter.kind = "token_bucket" /\ limiter.refill_interval >= 1) =>
        \A k \in Keys :
            (Simultaneous(k) /\ Len(log[k]) >= limiter.capacity) =>
                /\ Cardinality(Admitted(k)) = limiter.capacity
                /\ Cardinality(Denied(k)) = Len(log[k]) - limiter.capacity

\* C3 witness: two calls for one key at one clock time, the second blocked on
\* the lock while the first decided; capacity 1, one admitted and one denied.
C3_Witness ==
    /\ limiter.kind = "token_bucket"
    /\ limiter.capacity = 1
    /\ limiter.refill_interval >= 1
    /\ \E k \in Keys :
        /\ Simultaneous(k)
        /\ Len(log[k]) = NumThreads
        /\ log[k][1].waiting
        /\ log[k][1].result = "True"
        /\ log[k][2].result = "False"

\* C4 (key independence): for both limiters and every key k with no call in
\* progress, the results logged for k and the stored state of k are those of
\* running k's own calls alone on a fresh limiter, whatever calls for other
\* keys (the empty string included) were made before or between them.
C4_KeyIndependence ==
    \A k \in Keys : Quiet(k) =>
        /\ limiter.kind = "token_bucket" =>
            LET r == ReplayTB(log[k], 1, EmptyMap, k)
            IN  r.ok /\ SameKeyState(buckets, r.state, k)
        /\ limiter.kind = "sliding_window" =>
            LET r == ReplaySW(log[k], 1, EmptyMap, k)
            IN  r.ok /\ SameKeyState(requests, r.state, k)

\* C4 witness: the empty-string key used up its budget and was denied, and
\* key B was admitted.
C4_Witness ==
    /\ Admitted("") # {}
    /\ Denied("") # {}
    /\ Admitted("B") # {}

\* the arguments of create are a positive count and a positive duration
ValidArgs(c) == c.n >= 1 /\ c.d >= 1

KnownTypes == {"token_bucket", "sliding_window"}

\* C5 as stated (fail-fast validation): create returns no limiter when
\* capacity / max_requests or refill_interval / window is not positive.
C5_FailFast_AsStated ==
    (req # NoReq /\ req.limiter_type \in KnownTypes /\ ~ValidArgs(req)) =>
        created # "ok"

\* C6 (unknown algorithm): create with a limiter_type other than
\* "token_bucket" and "sliding_window" raises ValueError and returns no
\* limiter, so no is_allowed call is ever made on a fallback algorithm.
C6_UnknownAlgorithm ==
    (req # NoReq /\ req.limiter_type \notin KnownTypes) =>
        /\ created = "ValueError"
        /\ limiter = NoLimiter
        /\ CallsStarted = 0

\* C6 witness: create("unknown_algo", ...) was called and raised.
C6_Witness ==
    /\ req.limiter_type = "unknown_algo"
    /\ created = "ValueError"

\* C7 as stated (no runtime error): every is_allowed call on a limiter that
\* create returned ends with True or False.
C7_NoRuntimeError_AsStated ==
    created = "ok" =>
        \A k \in Keys : \A i \in DOMAIN log[k] :
            log[k][i].result \in {"True", "False"}

\* the first n calls logged for key B were made at clock 0, the first of them
\* creating the key at clock 0
FirstAtZero(n) ==
    /\ Len(log["B"]) >= n
    /\ log["B"][1].created \in {0, NoTime}
    /\ \A i \in 1..n : log["B"][i].now = 0

\* the calls logged for key B at clock value t, in lock order
CallsAt(t) == {i \in DOMAIN log["B"] : log["B"][i].now = t}

\* C8 (refill determinism): token bucket, capacity 3, refill_interval 20; a
\* key created at t = 0 whose first three calls are made at t = 0 has them
\* admitted, is denied on every call at t = 19, and at t = 20 is admitted on
\* the first call and denied on every later one.
C8_RefillDeterminism ==
    (limiter.kind = "token_bucket" /\ FirstAtZero(3)) =>
        /\ \A i \in 1..3 : log["B"][i].result = "True"
        /\ \A i \in CallsAt(19) : log["B"][i].result = "False"
        /\ \A i \in CallsAt(20) :
            log["B"][i].result =
                (IF \A j \in CallsAt(20) : i <= j THEN "True" ELSE "False")

\* C8 witness: three admits at t = 0, a denial at t = 19, then at t = 20 one
\* admit followed by one denial.
C8_Witness ==
    /\ limiter.kind = "token_bucket"
    /\ FirstAtZero(3)
    /\ Len(log["B"]) = 6
    /\ log["B"][4].now = 19 /\ log["B"][4].result = "False"
    /\ log["B"][5].now = 20 /\ log["B"][5].result = "True"
    /\ log["B"][6].now = 20 /\ log["B"][6].result = "False"

\* admits logged for key B before call i that are younger than the window at
\* the time of call i
CountedAt(i) ==
    {j \in AdmitsUpTo("B", i - 1) : log["B"][i].now < log["B"][j].now + limiter.window}

\* C9 (sliding exactness): sliding window, max_requests 5, window 60; five
\* calls at t = 0 are admitted, a sixth at t = 30 is denied and a seventh at
\* t = 61 is admitted; and every call is admitted exactly when fewer than
\* max_requests earlier admits are younger than the window, an admit made at
\* time t not being counted by any call at time >= t + window.
C9_SlidingExactness ==
    limiter.kind = "sliding_window" =>
        /\ FirstAtZero(5) =>
            /\ \A i \in 1..5 : log["B"][i].result = "True"
            /\ (Len(log["B"]) >= 6 /\ log["B"][6].now = 30) =>
                    log["B"][6].result = "False"
            /\ (Len(log["B"]) >= 7 /\ log["B"][6].now = 30 /\ log["B"][7].now = 61) =>
                    log["B"][7].result = "True"
        /\ \A i \in DOMAIN log["B"] :
            (log["B"][i].result = "True") =
                (Cardinality(CountedAt(i)) < limiter.max_requests)

\* C9 witness: five admits at t = 0, the sixth call denied at t = 30 and the
\* seventh admitted at t = 61.
C9_Witness ==
    /\ limiter.kind = "sliding_window"
    /\ FirstAtZero(5)
    /\ Len(log["B"]) = 7
    /\ log["B"][6].now = 30 /\ log["B"][6].result = "False"
    /\ log["B"][7].now = 61 /\ log["B"][7].result = "True"

\* C10 as stated (cross-key non-blocking): no thread waits at the lock while
\* the lock is held by a call for a different key.
C10_CrossKeyNonBlocking_AsStated ==
    \A t1, t2 \in Threads :
        ~(pc[t1] = "acquire" /\ lock = t2 /\ user_id[t1] # user_id[t2])

(* ---------------- one finished token-bucket call as a step -------------- *)
\* this step ends a call for key k (its entry is added to the log)
Finishes(k) == Len(log'[k]) = Len(log[k]) + 1

\* the entry this step adds to the log of key k
NewEntry(k) == log'[k][Len(log'[k])]

\* 1 when the call ended by this step was admitted
Charged(k) == IF NewEntry(k).result = "True" THEN 1 ELSE 0

\* whole refill intervals between the key's last_refill and the clock value
\* the call read, none when that time is negative
Credited(k) ==
    LET fl == (NewEntry(k).now - buckets[k].last_refill) \div limiter.refill_interval
    IN  IF fl > 0 THEN fl ELSE 0

\* the key's tokens after the refill step of the call ended by this step
Refilled(k) ==
    IF Credited(k) > 0
    THEN Min(limiter.capacity, buckets[k].tokens + Credited(k))
    ELSE buckets[k].tokens

\* C12 (backward clock): a token-bucket call that reads a clock value earlier
\* than the key's last_refill leaves last_refill unchanged, adds no token, and
\* is admitted only if a token was there before the call (which it charges).
C12_BackwardClock ==
    [][\A k \in Keys :
        (limiter.kind = "token_bucket" /\ Finishes(k)
            /\ NewEntry(k).now < buckets[k].last_refill) =>
            /\ buckets'[k].last_refill = buckets[k].last_refill
            /\ NewEntry(k).result = "True" => buckets[k].tokens > 0
            /\ buckets'[k].tokens = buckets[k].tokens - Charged(k)]_vars

\* C12 witness: a key created at one clock value was called again, and
\* admitted from a token it still had, at an earlier clock value.
C12_Witness ==
    /\ limiter.kind = "token_bucket"
    /\ \E k \in Keys : \E j \in DOMAIN log[k] :
        /\ j > 1
        /\ log[k][1].created # NoTime
        /\ log[k][j].now < log[k][1].created
        /\ log[k][j].result = "True"

\* C15 (token range): on a token bucket built with capacity >= 1, every
\* stored bucket has 0 <= tokens <= capacity in every reachable state,
\* whichever way the clock moves.
C15_TokenRange ==
    (limiter.kind = "token_bucket" /\ limiter.capacity >= 1) =>
        \A k \in DOMAIN buckets :
            buckets[k].tokens >= 0 /\ buckets[k].tokens <= limiter.capacity

\* C15 witness: a key was denied with its bucket at 0 and later refilled and
\* admitted again.
C15_Witness ==
    /\ limiter.kind = "token_bucket"
    /\ limiter.capacity >= 1
    /\ \E k \in DOMAIN buckets : \E i, j \in DOMAIN log[k] :
        /\ i < j
        /\ log[k][i].result = "False"
        /\ log[k][j].result = "True"
        /\ buckets[k].tokens = limiter.capacity - 1

\* C16 (last_refill monotonicity): no step removes a bucket or lowers the
\* last_refill of a key, also when the clock is set back between calls.
C16_LastRefillMonotone ==
    [][\A k \in DOMAIN buckets :
        /\ k \in DOMAIN buckets'
        /\ buckets'[k].last_refill >= buckets[k].last_refill]_vars

\* C16 witness: the clock stands before a key's last_refill and a call that
\* read such a clock value has finished.
C16_Witness ==
    \E k \in DOMAIN buckets :
        /\ buckets[k].last_refill > clock
        /\ log[k] # <<>>
        /\ log[k][Len(log[k])].now < buckets[k].last_refill

\* C17 as stated (fractional progress): a token-bucket call that credits
\* tokens_to_add > 0 tokens advances last_refill by exactly
\* tokens_to_add * refill_interval.
C17_FractionalProgress_AsStated ==
    [][\A k \in Keys :
        (limiter.kind = "token_bucket" /\ limiter.refill_interval >= 1
            /\ Finishes(k) /\ Credited(k) > 0) =>
            buckets'[k].last_refill =
                buckets[k].last_refill + Credited(k) * limiter.refill_interval]_vars

\* C18 (integer refill): with refill_interval >= 1, a token-bucket call at
\* clock value now credits floor((now - last_refill) / refill_interval)
\* tokens, capped at capacity, before it decides; when now - last_refill <
\* refill_interval it credits nothing and leaves tokens (before the decision)
\* and last_refill as they were.
C18_IntegerRefill ==
    [][\A k \in Keys :
        (limiter.kind = "token_bucket" /\ limiter.refill_interval >= 1 /\ Finishes(k)) =>
            /\ buckets'[k].tokens + Charged(k) = Refilled(k)
            /\ NewEntry(k).now - buckets[k].last_refill < limiter.refill_interval =>
                /\ buckets'[k].tokens + Charged(k) = buckets[k].tokens
                /\ buckets'[k].last_refill = buckets[k].last_refill]_vars

\* C18 witness: capacity 1, refill_interval 1; the key spent its token at
\* clock 0 and was admitted again two or more intervals later, the credit
\* capped at capacity.
C18_Witness ==
    /\ limiter.kind = "token_bucket"
    /\ limiter.capacity = 1
    /\ limiter.refill_interval = 1
    /\ \E k \in Keys :
        /\ Len(log[k]) = 2
        /\ log[k][1].created = 0 /\ log[k][1].now = 0
        /\ log[k][2].now >= 2 /\ log[k][2].result = "True"
        /\ k \in DOMAIN buckets /\ buckets[k].tokens = 0

\* C19 (decide and charge): with refill_interval >= 1, a token-bucket call
\* returns True exactly when the key's tokens after the refill step are > 0;
\* a True result leaves one token fewer than after the refill step, a False
\* result leaves the tokens as they were, at 0.
C19_DecideAndCharge ==
    [][\A k \in Keys :
        (limiter.kind = "token_bucket" /\ limiter.refill_interval >= 1 /\ Finishes(k)) =>
            /\ NewEntry(k).result = (IF Refilled(k) > 0 THEN "True" ELSE "False")
            /\ NewEntry(k).result = "True" => buckets'[k].tokens = Refilled(k) - 1
            /\ NewEntry(k).result = "False" =>
                buckets'[k].tokens = Refilled(k) /\ buckets'[k].tokens = 0]_vars

\* C19 witness: key B was admitted until its bucket was empty, then denied
\* with the bucket still at 0.
C19_Witness ==
    /\ limiter.kind = "token_bucket"
    /\ limiter.capacity = 2
    /\ Len(log["B"]) = 3
    /\ log["B"][1].result = "True"
    /\ log["B"][2].result = "True"
    /\ log["B"][3].result = "False"
    /\ buckets["B"].tokens = 0

\* thread t is between lines 24 and 26 of a call that created its key's bucket
JustCreated(t) == pc[t] = "tb_decide" /\ initAt[t] # NoTime

\* C20 (lazy initialisation): a key has no bucket before its first call; the
\* first token-bucket call for a key creates the bucket with tokens =
\* capacity and last_refill = the clock value it read, so for capacity >= 1
\* (and refill_interval >= 1) it is admitted and leaves tokens = capacity - 1;
\* a key new to the sliding window starts with an empty list, so its first
\* call counts nothing and leaves the list holding only its own time.
C20_LazyInit ==
    /\ limiter.kind = "token_bucket" =>
        /\ \A t \in Threads : JustCreated(t) =>
            buckets[user_id[t]] = [tokens |-> limiter.capacity, last_refill |-> initAt[t]]
        /\ \A k \in Keys :
            /\ (log[k] = <<>> /\ Quiet(k)) => k \notin DOMAIN buckets
            /\ log[k] # <<>> => log[k][1].created # NoTime
            /\ (log[k] # <<>> /\ limiter.capacity >= 1 /\ limiter.refill_interval >= 1) =>
                log[k][1].result = "True"
            /\ (Len(log[k]) = 1 /\ Quiet(k)
                    /\ limiter.capacity >= 1 /\ limiter.refill_interval >= 1) =>
                buckets[k].tokens = limiter.capacity - 1
    /\ limiter.kind = "sliding_window" =>
        \A k \in Keys :
            /\ (log[k] = <<>> /\ Quiet(k)) => k \notin DOMAIN requests
            /\ log[k] # <<>> =>
                log[k][1].result = (IF limiter.max_requests >= 1 THEN "True" ELSE "False")
            /\ (Len(log[k]) = 1 /\ Quiet(k)) =>
                requests[k] = (IF limiter.max_requests >= 1
                               THEN <<log[k][1].now>> ELSE <<>>)

\* C20 witness: with capacity 2 the first call for key B was admitted and left
\* one token, while the empty-string key, never called, has no bucket.
C20_Witness ==
    /\ limiter.kind = "token_bucket"
    /\ limiter.capacity = 2
    /\ Len(log["B"]) = 1
    /\ log["B"][1].result = "True"
    /\ "B" \in DOMAIN buckets /\ buckets["B"].tokens = 1
    /\ "" \notin DOMAIN buckets

\* C11 (per-key serialization): whenever no call is inside the with block,
\* the results of the calls made for each key, and the state stored for the
\* key, are those of running the same calls one at a time, in the order in
\* which they took the lock, on a limiter that did not know the key.
C11_PerKeySerialization ==
    (created = "ok" /\ FineQuiet) =>
        \A k \in Keys :
            IF limiter.kind = "token_bucket"
            THEN LET r == ReplayTB(log[k], 1, EmptyMap, k) IN
                 r.ok /\ SameKeyState(buckets, r.state, k)
            ELSE LET r == ReplaySW(log[k], 1, EmptyMap, k) IN
                 r.ok /\ SameKeyState(requests, r.state, k)

\* C11 witness: two calls for key B overlapped, the second waiting at the
\* with statement while the first held the lock; with room for one, the
\* first was admitted and the second denied.
C11_Witness ==
    /\ FineQuiet
    /\ log[""] = <<>>
    /\ Len(log["B"]) = 2
    /\ log["B"][1].waiting
    /\ log["B"][1].result = "True"
    /\ log["B"][2].result = "False"

\* every call that reached the with statement leaves is_allowed
EveryCallEnds == \A t \in FineThreads : (pc[t] # "idle") ~> (pc[t] = "idle")

\* the lock is never held forever
LockComesFree == (lock # NoThread) ~> (lock = NoThread)

\* every finished call gave a decision
OnlyDecisions ==
    \A k \in Keys : \A i \in DOMAIN log[k] : log[k][i].result \in {"True", "False"}

\* C13 (always returns): under fair scheduling every is_allowed call that
\* reached the with statement gets the lock and leaves is_allowed, the lock
\* is never held forever, no caller is blocked forever, and on a limiter
\* with refill_interval >= 1 or a sliding window every finished call gave a
\* decision, True or False.
C13_AlwaysReturns ==
    /\ EveryCallEnds
    /\ LockComesFree
    /\ []((limiter.kind = "token_bucket" => limiter.refill_interval >= 1) => OnlyDecisions)

\* C13 witness: a call for key B held the lock while another caller waited at
\* the with statement; both have returned a decision and the lock is free.
C13_Witness ==
    /\ lock = NoThread
    /\ \A t \in FineThreads : pc[t] = "idle"
    /\ log[""] = <<>>
    /\ Len(log["B"]) = 2
    /\ log["B"][1].waiting
    /\ \A i \in 1..2 : log["B"][i].result \in {"True", "False"}

\* the limiter the caller asked for with arguments c
Requested(c) ==
    IF c.limiter_type = "token_bucket"
    THEN TokenBucketRateLimiter(c.n, c.d)
    ELSE SlidingWindowRateLimiter(c.n, c.d)

\* the calls L made for key k run alone on limiter lim starting from store
RECURSIVE ReplayOn(_, _, _, _, _)
ReplayOn(lim, L, i, store, k) ==
    IF i > Len(L) THEN [ok |-> TRUE, state |-> store]
    ELSE LET e == L[i]
             isTB == lim.kind = "token_bucket"
             s1 == IF isTB
                   THEN TBInit(store, k, lim.capacity,
                               IF e.created = NoTime THEN e.now ELSE e.created)
                   ELSE store
             r == IF isTB THEN TBDecide(s1, k, e.now, lim) ELSE SWDecide(s1, k, e.now, lim)
             next == IF isTB THEN r.buckets ELSE r.requests
         IN  IF r.result = e.result
             THEN ReplayOn(lim, L, i + 1, next, k)
             ELSE [ok |-> FALSE, state |-> next]

\* C14 (factory dispatch and instance isolation): every limiter object made
\* by create has the kind that was asked for and the arguments as given;
\* before its first call it has no keys; and for every key its results and
\* its stored state are those of the limiter that was asked for, run alone
\* from an empty store on the calls made on this object, whatever calls were
\* made on the other object.
C14_DispatchAndIsolation ==
    \A i \in DOMAIN insts :
        LET want == Requested(insts[i].req)
            mine == heap[insts[i].store]
        IN  /\ insts[i].limiter = want
            /\ (\A k \in Keys : ilog[i][k] = <<>>) => mine = EmptyMap
            /\ \A k \in Keys :
                LET r == ReplayOn(want, ilog[i][k], 1, EmptyMap, k) IN
                r.ok /\ SameKeyState(mine, r.state, k)

\* C14 witness: a token bucket with capacity 1 and a sliding window were made;
\* key B was admitted and then denied on the first, and admitted on the
\* second.
C14_Witness ==
    /\ Len(insts) = 2
    /\ insts[1].req.limiter_type = "token_bucket" /\ insts[1].req.n = 1
    /\ insts[2].req.limiter_type = "sliding_window"
    /\ Len(ilog[1]["B"]) = 2
    /\ ilog[1]["B"][1].result = "True" /\ ilog[1]["B"][2].result = "False"
    /\ Len(ilog[2]["B"]) = 1
    /\ ilog[2]["B"][1].result = "True"
    /\ "B" \in DOMAIN heap[insts[2].store] /\ Len(heap[insts[2].store]["B"]) = 1

(* --------------------------- claims C21..C30 --------------------------- *)
\* calls in the log of key k that created the key's bucket
Creators(k) == {i \in DOMAIN log[k] : log[k][i].created # NoTime}

\* C21 (atomic get-or-insert): a thread that is about to run the insert of
\* line 21-24 or of line 52 still finds its key missing, so no insert
\* replaces a bucket or a timestamp list that exists; and of the calls made
\* for a key of a token bucket only the first in lock order created it.
C21_GetOrInsert ==
    /\ \A t \in FineThreads :
        /\ pc[t] = "L21" => user_id[t] \notin DOMAIN buckets
        /\ pc[t] = "L52" => user_id[t] \notin DOMAIN requests
    /\ \A k \in Keys : Creators(k) \subseteq {1}

\* C21 witness: two threads made the first calls for the new key B at the
\* same time, one waiting at the with statement while the other held the
\* lock; the first created the bucket and the second did not.
C21_Witness ==
    /\ limiter.kind = "token_bucket"
    /\ FineQuiet
    /\ Len(log["B"]) = 2
    /\ log["B"][1].waiting
    /\ log["B"][1].created # NoTime
    /\ log["B"][2].created = NoTime
    /\ log["B"][2].result # "pending"

(* --------------- one finished sliding-window call as a step ------------- *)
\* the timestamps stored for key k before the step, none for a new key
Stored(k) == IF k \in DOMAIN requests THEN requests[k] ELSE <<>>

\* this step ends a sliding-window call for key k
SWFinishes(k) == limiter.kind = "sliding_window" /\ Finishes(k)

\* C22 (sliding-window count invariant): right after a sliding-window call
\* that returned True the key's list has at most max_requests entries; the
\* entries the decision counted are the ones it left in the list before its
\* own, and none of them is older than the window at the call's time.
C22_CountInvariant ==
    [][\A k \in Keys :
        (SWFinishes(k) /\ NewEntry(k).result = "True") =>
            /\ Len(requests'[k]) <= limiter.max_requests
            /\ \A i \in DOMAIN requests'[k] :
                NewEntry(k).now - requests'[k][i] <= limiter.window]_vars

\* C22 witness: a call was admitted as the last one the limit allows while
\* the list before it held an entry older than the window.
C22_Witness ==
    /\ limiter.kind = "sliding_window"
    /\ limiter.max_requests = 2
    /\ \E j \in DOMAIN log["B"] :
        /\ j >= 3
        /\ log["B"][j].result = "True"
        /\ log["B"][j - 1].result = "False"
        /\ log["B"][j].now - log["B"][1].now > limiter.window
    /\ Quiet("B")
    /\ Len(requests["B"]) = 2

\* the timestamps of key k after the pruning step of the call ended by this
\* step: the list the call leaves, without the entry it appended
AfterPrune(k) ==
    IF NewEntry(k).result = "True"
    THEN SubSeq(requests'[k], 1, Len(requests'[k]) - 1)
    ELSE requests'[k]

\* C23 (sliding-window timestamp shape), as stated: after the pruning step of
\* every sliding-window call at time now the key's timestamps are strictly
\* increasing and each lies in [now - window, now].
C23_TimestampShape_AsStated ==
    [][\A k \in Keys :
        SWFinishes(k) =>
            LET ts == AfterPrune(k) IN
            /\ \A i \in DOMAIN ts :
                /\ NewEntry(k).now - limiter.window <= ts[i]
                /\ ts[i] <= NewEntry(k).now
            /\ \A i, j \in DOMAIN ts : i < j => ts[i] < ts[j]]_vars

\* C24 (prune boundary): the pruning step of a sliding-window call at time
\* now keeps exactly the stored timestamps ts > now - window, in their order,
\* and removes exactly those with ts <= now - window; an entry whose age is
\* exactly the window is removed.
C24_PruneBoundary ==
    [][\A k \in Keys :
        SWFinishes(k) =>
            LET now == NewEntry(k).now IN
            /\ AfterPrune(k) = SelectSeq(Stored(k), LAMBDA ts : ts > now - limiter.window)
            /\ \A i \in DOMAIN Stored(k) :
                Stored(k)[i] = now - limiter.window =>
                    \A j \in DOMAIN AfterPrune(k) : AfterPrune(k)[j] # Stored(k)[i]]_vars

\* C24 witness: with max_requests 1 and window 2 the key was admitted at 0,
\* denied at 1 (age 1, kept and counted) and admitted at 2, when the entry 0
\* had the age of the window exactly and was removed.
C24_Witness ==
    /\ limiter.kind = "sliding_window"
    /\ limiter.max_requests = 1 /\ limiter.window = 2
    /\ Len(log["B"]) = 3
    /\ log["B"][1].now = 0 /\ log["B"][1].result = "True"
    /\ log["B"][2].now = 1 /\ log["B"][2].result = "False"
    /\ log["B"][3].now = 2 /\ log["B"][3].result = "True"
    /\ Quiet("B")
    /\ requests["B"] = <<2>>

\* C25 (sliding-window admit rule): a sliding-window call returns True
\* exactly when fewer than max_requests timestamps are left after pruning; a
\* True result leaves the pruned list with one entry equal to now appended,
\* a False result leaves the pruned list and appends nothing.
C25_AdmitRule ==
    [][\A k \in Keys :
        SWFinishes(k) =>
            LET now == NewEntry(k).now
                kept == SelectSeq(Stored(k), LAMBDA ts : ts > now - limiter.window)
            IN  /\ (NewEntry(k).result = "True") = (Len(kept) < limiter.max_requests)
                /\ NewEntry(k).result \in {"True", "False"}
                /\ NewEntry(k).result = "True" => requests'[k] = Append(kept, now)
                /\ NewEntry(k).result = "False" => requests'[k] = kept]_vars

\* C25 witness: with max_requests 1 and window 2 the key was admitted at 0
\* and denied twice at 1; the denials stored nothing, so the call at 2 was
\* admitted.
C25_Witness ==
    /\ limiter.kind = "sliding_window"
    /\ limiter.max_requests = 1 /\ limiter.window = 2
    /\ Len(log["B"]) = 4
    /\ log["B"][1].now = 0 /\ log["B"][1].result = "True"
    /\ log["B"][2].now = 1 /\ log["B"][2].result = "False"
    /\ log["B"][3].now = 1 /\ log["B"][3].result = "False"
    /\ log["B"][4].now = 2 /\ log["B"][4].result = "True"

\* some call for key k is inside the with block in this state
Inside(k) == \E t \in Threads : lock = t /\ user_id[t] = k

\* C26 (key lifetime): in every step, every stored key stays stored; a key
\* that enters a map, and a key whose stored state changes, is the key of the
\* is_allowed call that holds the lock in that step; so between calls, also
\* while the clock advances, no key's state changes.
C26_KeyLifetime ==
    [][/\ DOMAIN buckets \subseteq DOMAIN buckets'
       /\ DOMAIN requests \subseteq DOMAIN requests'
       /\ \A k \in DOMAIN buckets' :
            (k \notin DOMAIN buckets \/ buckets'[k] # buckets[k]) =>
                (limiter.kind = "token_bucket" /\ Inside(k))
       /\ \A k \in DOMAIN requests' :
            (k \notin DOMAIN requests \/ requests'[k] # requests[k]) =>
                (limiter.kind = "sliding_window" /\ Inside(k))]_vars

\* C26 witness: key B was admitted on a sliding window with window 1, the
\* clock advanced past the window with no call in between, and the expired
\* timestamp is still stored; the other key was never called and is absent.
C26_Witness ==
    /\ limiter.kind = "sliding_window"
    /\ limiter.window = 1
    /\ lock = NoThread
    /\ "B" \in DOMAIN requests /\ requests["B"] = <<0>>
    /\ clock = 2
    /\ "" \notin DOMAIN requests
    /\ log[""] = <<>>

\* C27 (configuration immutability): in every reachable state of a limiter
\* that create returned, capacity, refill_interval, max_requests and window
\* have the values given at construction, whatever is_allowed calls were made.
C27_ConfigImmutable ==
    created = "ok" => limiter = Requested(req)

\* C27 witness: a token bucket made with capacity 1 admitted one call and
\* denied the next; the bucket is empty and capacity is still 1.
C27_Witness ==
    /\ created = "ok"
    /\ req.limiter_type = "token_bucket" /\ req.n = 1
    /\ limiter.capacity = 1
    /\ Len(log["B"]) = 2
    /\ log["B"][1].result = "True" /\ log["B"][2].result = "False"
    /\ buckets["B"].tokens = 0

\* C28 (recovery after denial): with a clock that does not go back, on a
\* token bucket with capacity >= 1 and refill_interval >= 1 every call at a
\* time >= last_refill + refill_interval is admitted, and on a sliding window
\* with max_requests >= 1 every call at a time >= the oldest stored timestamp
\* + window is admitted; a denied call leaves a bucket, or a non-empty list,
\* so that such a time exists and the key does not stay denied once the
\* clock has reached it.
C28_Recovery ==
    [][\A k \in Keys :
        /\ (limiter.kind = "token_bucket" /\ Finishes(k)
                /\ limiter.capacity >= 1 /\ limiter.refill_interval >= 1) =>
            /\ NewEntry(k).now >= buckets[k].last_refill + limiter.refill_interval =>
                NewEntry(k).result = "True"
            /\ NewEntry(k).result = "False" => k \in DOMAIN buckets'
        /\ (SWFinishes(k) /\ limiter.max_requests >= 1) =>
            /\ (Stored(k) # <<>> /\ NewEntry(k).now >= Stored(k)[1] + limiter.window) =>
                NewEntry(k).result = "True"
            /\ NewEntry(k).result = "False" => requests'[k] # <<>>]_vars

\* C28 witness: on a token bucket with capacity 1 and refill_interval 2 the
\* key was admitted at 0, denied at 1 and admitted again at 2, one interval
\* after its last refill.
C28_Witness ==
    /\ limiter.kind = "token_bucket"
    /\ limiter.capacity = 1 /\ limiter.refill_interval = 2
    /\ Len(log["B"]) = 3
    /\ log["B"][1].created = 0
    /\ log["B"][1].now = 0 /\ log["B"][1].result = "True"
    /\ log["B"][2].now = 1 /\ log["B"][2].result = "False"
    /\ log["B"][3].now = 2 /\ log["B"][3].result = "True"

\* admitted calls of key k whose time lies in [from, to]
AdmitsBetween(k, from, to) ==
    {l \in Admitted(k) : from <= log[k][l].now /\ log[k][l].now <= to}

\* C29 as stated (token-bucket rate ceiling): with a non-decreasing clock, on
\* a token bucket the admitted calls of a key whose time lies in an interval
\* of length T number at most capacity + floor(T / refill_interval); it is
\* enough to take the intervals between the times of two admitted calls.
C29_RateCeiling_AsStated ==
    (limiter.kind = "token_bucket" /\ limiter.refill_interval >= 1) =>
        \A k \in Keys : \A i, j \in Admitted(k) :
            i <= j =>
                Cardinality(AdmitsBetween(k, log[k][i].now, log[k][j].now))
                    <= limiter.capacity
                        + (log[k][j].now - log[k][i].now) \div limiter.refill_interval

\* thread t waits at a with statement for a lock that it holds itself
SelfBlocked(t) ==
    /\ agent[t].pc \in {"L30", "L37", "L61", "L70"}
    /\ lockers[agent[t].at].lock = t

\* thread t, in delivery_package, holds the lock of a locker it found empty
FoundEmpty(t) ==
    /\ agent[t].op = "deliver"
    /\ agent[t].pc = "L62"
    /\ lockers[agent[t].at].package = NoPackage

\* delivery_package of thread t returned (package, locker_id)
Delivered(t) == agent[t].pc = "idle" /\ agent[t].result.kind = "delivered"

\* C30 as stated (locker delivery completes): under fair scheduling a
\* delivery_package call that finds an empty locker stores the package there
\* and returns (package, locker_id), and no thread ever waits for a locker
\* lock that it holds itself.
C30_DeliveryCompletes_AsStated ==
    /\ \A t \in LockerThreads : FoundEmpty(t) ~> Delivered(t)
    /\ [](\A t \in LockerThreads : ~SelfBlocked(t))

(* --------------------------- claims C31..C37 --------------------------- *)
\* this step is an exit_vehicle call with the id of an active ticket
ExitsActive(id) ==
    /\ id \in DOMAIN active_tickets
    /\ lot_result' # lot_result
    /\ lot_result'.op = "exit_vehicle"
    /\ lot_result'.arg = id

\* C31 as stated (parking exit): exit_vehicle called with the id of an active
\* ticket returns a price, frees the ticket's spot and removes the ticket
\* from active_tickets, and get_available_spots_count is then one higher.
C31_ParkingExit_AsStated ==
    [][\A id \in 1..MaxTicketId :
        ExitsActive(id) =>
            /\ lot_result'.status = "price"
            /\ spots'[active_tickets[id].spot].vehicle = "none"
            /\ id \notin DOMAIN active_tickets'
            /\ get_available_spots_count(spots') = get_available_spots_count(spots) + 1]_vars

\* every thread that was started has returned or raised
AllFinished == \A t \in InvThreads : worker[t].pc \in {"idle", "done"}

\* in this step a thread comes back from remove_stock with True
ReturnsTrue(t) == worker'[t].ok /\ ~worker[t].ok

\* C32 (inventory stock never negative): under every interleaving of the
\* purchase and restock threads the item's quantity stays >= 0; the step in
\* which remove_stock comes back with True takes the request's whole qty off
\* a quantity that covers it, and a purchase is reported fulfilled only by
\* the thread that got that True for it.
C32_StockNeverNegative ==
    /\ [](\A i \in DOMAIN items : items[i] >= 0)
    /\ [][/\ \A t \in InvThreads :
               ReturnsTrue(t) =>
                  /\ items[TheItem] >= QtyOf(worker[t].cur)
                  /\ items'[TheItem] = items[TheItem] - QtyOf(worker[t].cur)
          /\ items' # items =>
                  \/ TheItem \notin DOMAIN items
                  \/ items'[TheItem] > items[TheItem]
                  \/ \E u \in InvThreads : ReturnsTrue(u)
          /\ \A r \in fulfilled' \ fulfilled :
                  \E u \in InvThreads : worker[u].ok /\ worker[u].cur = r]_vars

\* a queued purchase and a direct purchase are both fulfilled, the restock
\* thread took part, and the stock is used up
C32_Witness ==
    /\ Cardinality(fulfilled) >= 2
    /\ TheItem \in DOMAIN items /\ items[TheItem] = 0
    /\ \E t \in InvThreads : worker[t].kind = "restock" /\ worker[t].cur \in fulfilled
    /\ AllFinished

\* C33 as stated (queued purchases are served): once every request thread
\* has finished, no purchase is left in the item's queue whose qty the
\* item's stock covers.
C33_QueuedServed_AsStated ==
    AllFinished =>
        \A i \in DOMAIN request_queue :
            \A k \in 1..Len(request_queue[i]) :
                items[i] < QtyOf(request_queue[i][k])

\* in this step the executor thread of job j starts job.run()
StartsRun(j) == j \in DOMAIN executor /\ executor'[j].runs # executor[j].runs

\* C34 as stated (cancelled jobs stay cancelled): once cancel(job_id) has
\* returned True, the job's status is CANCELLED in every state, and the job's
\* run() is not started any more.
C34_CancelledStays_AsStated ==
    /\ [](\A j \in cancel_returned : jobs[j].status = "CANCELLED")
    /\ [][\A j \in cancel_returned : ~StartsRun(j)]_vars

\* a job scheduled without an interval, and one scheduled with an interval
OneTime(j) == j \in DOMAIN jobs /\ jobs[j].interval = NoInterval

Recurring(j) == j \in DOMAIN jobs /\ jobs[j].interval # NoInterval

\* job.run() has just ended
JustRan(j) == j \in DOMAIN executor /\ executor[j].pc \in {"L48", "L51"}

\* the executor thread of job j has ended
Ended(j) == j \in DOMAIN executor /\ executor[j].pc = "done"

\* the status is SCHEDULED again, with run_at moved by interval once for
\* each execution made
BackToScheduled(j) ==
    /\ j \in DOMAIN jobs
    /\ jobs[j].status = "SCHEDULED"
    /\ jobs[j].run_at = jobs[j].scheduled_for + jobs[j].interval * executor[j].runs

\* cancel has been called with this job's id
CancelCalled(j) == j \in cancel_returned \/ (canceller.pc # "idle" /\ canceller.job = j)

\* C35 (job execution count): a job scheduled without an interval has run()
\* executed at most once and never before run_at, and after the execution
\* its executor thread ends, with status COMPLETED or FAILED (the status the
\* executor leaves; cancel is not called on the job). A job scheduled with an
\* interval starts each execution with run_at at the requested time plus
\* interval times the executions made, after each execution its status
\* returns to SCHEDULED, and at that point run_at has moved by exactly
\* interval once more.
C35_ExecutionCount ==
    /\ [](\A j \in JobIds : OneTime(j) => executor[j].runs <= 1)
    /\ [][\A j \in JobIds : (OneTime(j) /\ StartsRun(j)) =>
              job_time >= jobs[j].run_at]_vars
    /\ \A j \in JobIds : (OneTime(j) /\ JustRan(j)) ~> Ended(j)
    /\ [](\A j \in JobIds :
              (OneTime(j) /\ Ended(j) /\ executor[j].runs = 1 /\ ~CancelCalled(j))
              => jobs[j].status \in {"COMPLETED", "FAILED"})
    /\ [][\A j \in JobIds : (Recurring(j) /\ StartsRun(j)) =>
              /\ job_time >= jobs[j].run_at
              /\ jobs[j].run_at = jobs[j].scheduled_for
                                    + jobs[j].interval * executor[j].runs]_vars
    /\ \A j \in JobIds : (Recurring(j) /\ JustRan(j)) ~> BackToScheduled(j)

\* a one-time job that had to wait for its run_at has run once and failed,
\* and its executor thread has ended
C35_Witness ==
    \E j \in JobIds :
        /\ OneTime(j) /\ jobs[j].run_at >= 1
        /\ executor[j].pc = "done" /\ executor[j].runs = 1
        /\ jobs[j].status = "FAILED" /\ ~CancelCalled(j)

\* C36 as stated (all-or-nothing seat booking): a book_seats call that
\* returns None leaves every seat's booked flag as it was, and every booked
\* seat belongs to a recorded Booking.
C36_AllOrNothing_AsStated ==
    /\ [][book_result'.status = "None" => seat_booked' = seat_booked]_vars
    /\ [](\A s \in 1..NumSeats :
            seat_booked[s] => \E k \in 1..Len(bookings) :
                                 \E i \in 1..Len(bookings[k].seats) : bookings[k].seats[i] = s)

\* the bookings that hold seat s and are not cancelled
LiveBookingsOf(s) ==
    {k \in 1..Len(show_bookings) :
        show_bookings[k].status # "CANCELLED" /\ s \in SeatSet(show_bookings[k].seats)}

\* C37 as stated (no double booking): under every interleaving of book_seats
\* and cancel calls, each seat belongs to at most one booking whose status is
\* not CANCELLED.
C37_NoDoubleBooking_AsStated ==
    \A s \in 1..ScreenSeats : Cardinality(LiveBookingsOf(s)) <= 1

====
